---- MODULE Spec2Model ----
(***************************************************************************)
(* State-machine model of the credential-lifecycle and delivery core of    *)
(* the support-request relay:                                              *)
(*   - GmailService (src/src/oauth2Setup.ts): validateToken, sendEmail,    *)
(*     refreshToken, handleAuthError and the error classification tables;  *)
(*   - EmailFallbackService (src/src/index.ts): handleFailedEmail,         *)
(*     retryFailedEmails, clearFailedEmails.                               *)
(* The program is single-threaded and event driven: every action below is  *)
(* the code that runs between two awaits of one asynchronous invocation.   *)
(* Time is counted in whole seconds (the code counts milliseconds).        *)
(***************************************************************************)
EXTENDS Integers, Sequences, FiniteSets, TLC

\* ------------------------------------------------------------------ bounds
\* Concurrent asynchronous invocations of GmailService methods.
Tasks == {"t1", "t2"}
\* Invocations started in one behaviour, one at a time.
MaxCalls == 3
\* Invocations started in one behaviour, interleaved: one per task.
MaxConcCalls == Cardinality(Tasks)
\* Concurrent invocations of retryFailedEmails and of handleFailedEmail.
Drains == {"d1", "d2"}
Enqs == {"e1"}
\* Entries enqueued in one behaviour.
MaxEntries == 2
\* Last instant of the clock, in seconds.
MaxTime == 303
\* /oauth/callback requests in flight, and how many arrive in a run
Runs == {"c1", "c2"}
MaxCallbacks == 3
\* POST /webhook/support requests in flight, and how many arrive in a run
Reqs == {"w1"}
MaxRequests == 3
\* Operations of each kind started in one behaviour of the whole process.
MaxOps == 1

\* ------------------------------------------------------- program constants
\* sendEmail(options, maxRetries = 3)
DefaultMaxRetries == 3
\* validateToken: 5 * 60 * 1000 ms, in seconds
GraceWindow == 300
\* supportRateLimit: max
RateLimitMax == 2
\* sendMessageWithRetry(bot, chatId, message, options, maxRetries = 3)
ChatMaxRetries == 3
\* Values of maxRetries the callers are modelled to pass.
RetryChoices == 1..DefaultMaxRetries

\* -------------------------------------------------- provider error objects
\* An error is the triple the classification reads: code, status, message.
\* JS numbers are written as digit strings; a message is its list of words,
\* and String.includes is containment of a contiguous list of words.
Undefined == "undefined"

Errors ==
  { [code |-> "invalid_grant", status |-> "400", message |-> <<"invalid_grant">>],
    [code |-> "401", status |-> "401", message |-> <<"Invalid", "Credentials">>],
    [code |-> Undefined, status |-> Undefined, message |-> <<"Token", "has", "been", "expired", "or", "revoked">>],
    [code |-> "503", status |-> "503", message |-> <<"Service", "Unavailable">>],
    [code |-> "ECONNRESET", status |-> Undefined, message |-> <<"socket", "hang", "up">>],
    [code |-> Undefined, status |-> Undefined, message |-> <<"network", "timeout">>],
    [code |-> "403", status |-> "403", message |-> <<"quota", "exceeded">>],
    [code |-> "400", status |-> "400", message |-> <<"Bad", "Request">>],
    [code |-> Undefined, status |-> Undefined, message |-> <<"Request", "Timeout">>] }

\* new Error('No access token received'), thrown by validateToken itself
NoAccessToken ==
  [code |-> Undefined, status |-> Undefined, message |-> <<"No", "access", "token", "received">>]

\* String.prototype.toLowerCase on one word of the vocabulary
ToLowerCase(w) ==
  CASE w = "Token" -> "token"
    [] w = "Invalid" -> "invalid"
    [] w = "Credentials" -> "credentials"
    [] w = "Service" -> "service"
    [] w = "Unavailable" -> "unavailable"
    [] w = "Bad" -> "bad"
    [] w = "Request" -> "request"
    [] w = "Timeout" -> "timeout"
    [] w = "No" -> "no"
    [] w = "Unauthorized" -> "unauthorized"
    [] w = "Forbidden" -> "forbidden"
    [] OTHER -> w

LowerWords(msg) == [i \in 1..Len(msg) |-> ToLowerCase(msg[i])]

\* String.prototype.includes
Includes(msg, phrase) ==
  \E i \in 1..(Len(msg) - Len(phrase) + 1) :
    SubSeq(msg, i, i + Len(phrase) - 1) = phrase

retryableCodes == {"ECONNRESET", "ETIMEDOUT", "ENOTFOUND", "EAI_AGAIN", "500", "502", "503", "429"}

isRetryableError(error) ==
  \/ error.code \in retryableCodes
  \/ error.status \in retryableCodes
  \/ Includes(error.message, <<"timeout">>)
  \/ Includes(error.message, <<"network">>)
  \/ Includes(error.message, <<"quota">>)

authErrors ==
  {"invalid_grant", "invalid_request", "unauthorized_client", "access_denied", "invalid_scope", "401", "403"}

authMessages ==
  { <<"Token", "has", "been", "expired", "or", "revoked">>,
    <<"invalid_grant">>,
    <<"unauthorized">>,
    <<"forbidden">>,
    <<"invalid", "refresh", "token">>,
    <<"refresh", "token", "expired">> }

isAuthenticationError(error) ==
  \/ error.code \in authErrors
  \/ error.status \in authErrors
  \/ \E msg \in authMessages : Includes(LowerWords(error.message), LowerWords(msg))

\* The class of an error, as sendEmail's catch block orders the two tests.
ErrorClass(error) ==
  IF isAuthenticationError(error) THEN "auth"
  ELSE IF isRetryableError(error) THEN "transient"
  ELSE "other"

\* Observation: which of the two tables the error caught matches.
ErrorTags(error) ==
  (IF isAuthenticationError(error) THEN {"matches_auth"} ELSE {})
    \cup (IF isRetryableError(error) THEN {"matches_retryable"} ELSE {})

\* ------------------------------------------------------------------- state
VARIABLES
  isTokenValid,      \* GmailService.isTokenValid
  lastTokenCheck,    \* GmailService.lastTokenCheck, seconds
  notificationSent,  \* GmailService.notificationSent
  now,               \* Date.now(), seconds since construction
  task,              \* the asynchronous invocations, one record per slot
  calls,             \* invocations started so far
  obs,               \* observations of the run (no code reads them)
  events,            \* what the last step did
  monitor,           \* the callback of the token-monitoring interval
  providerOk         \* the calls to the provider succeed from here on

tickVars == <<monitor, providerOk>>

gmailVars == <<isTokenValid, lastTokenCheck, notificationSent, now, task, calls, obs, events,
               tickVars>>

VARIABLES
  failedEmails,      \* EmailFallbackService.failedEmails, oldest first
  nextId,            \* identity of the next entry object to be allocated
  drain,             \* the retryFailedEmails invocations, one record per slot
  enq,               \* the handleFailedEmail invocations, one record per slot
  qobs               \* observations of the run (no code reads them)

queueVars == <<failedEmails, nextId, drain, enq, qobs>>

VARIABLES
  credentials,       \* OAuth2Setup.oauth2Client.credentials, shared by all requests
  tokenFile,         \* tokens.json
  cb,                \* the /oauth/callback runs, one record per slot
  cbCount            \* callback runs started so far

oauthVars == <<credentials, tokenFile, cb, cbCount>>

VARIABLES
  mailConfigured,        \* what createGmailService found: refresh token and settings there or not
  globalGmailService,    \* emailService: globalGmailService
  initializationPromise, \* emailService: initializationPromise
  gmailService,          \* index.ts: const gmailService
  hits,                  \* supportRateLimit: requests counted in the current window
  webhook,               \* the POST /webhook/support requests, one record per slot
  served                 \* webhook requests arrived so far

VARIABLES
  coreSecrets,           \* BOT_TOKEN, CHAT_ID and WEBHOOK_SECRET as index.ts found them
  proc,                  \* the process: starting, exited, loaded, listening
  configRefreshToken,    \* GmailService.config.refreshToken of the service built
  autoRetry,             \* startAutoRetry was called
  notConfiguredSent,     \* sendGmailNotConfiguredNotification was called
  processEnv             \* process.env as createGmailService found it

VARIABLES
  lastLoad,              \* what the last loadRefreshToken returned, tokens.json untouched since
  lastSave               \* what the last resolved saveRefreshToken was given, tokens.json untouched since

storageVars == <<lastLoad, lastSave>>

VARIABLES
  initRuns,              \* bodies of the initialisation in initializeGmailService awaiting createGmailService
  instances,             \* GmailService objects constructed so far
  monitors,              \* startTokenMonitoring calls so far
  getter,                \* the getGmailServiceAsync invocations, one record per slot
  gets                   \* getter calls made after the one of index.ts

initVars == <<initRuns, instances, monitors, getter, gets>>

bootVars == <<coreSecrets, proc, configRefreshToken, autoRetry, notConfiguredSent, processEnv>>

hookVars == <<mailConfigured, globalGmailService, initializationPromise, gmailService,
              hits, webhook, served, bootVars, storageVars, initVars>>

\* What one validateToken invocation saw when it was called.
NoCall ==
  [ called |-> FALSE, probed |-> FALSE, hasPrev |-> FALSE, prevProbed |-> FALSE,
    prevRes |-> "none", withinStart |-> FALSE, withinDone |-> FALSE, clean |-> FALSE ]

IdleTask ==
  [ op |-> "idle", pc |-> "idle", maxRetries |-> 0, attempt |-> 0, wake |-> 0,
    ret |-> "none", requiresReAuth |-> FALSE,
    vres |-> "none", sendCalls |-> 0, outs |-> <<>>, waits |-> <<>> ]

InitObs ==
  [ epFails |-> 0,          \* auth-class failures since the last recovery
    epNotifs |-> 0,         \* notifyAuthError calls since the last recovery
    vBy |-> "none",         \* the latest validateToken invocation: its task,
    vAt |-> 0,              \*   when it was called,
    vProbed |-> FALSE,      \*   whether it probed,
    vRes |-> "none",        \*   and how it ended: hit, pending, ok, fail
    probeOkAt |-> 0,        \* when liveness was last established (construction, probe)
    invalidSince |-> FALSE, \* an auth-class failure cleared liveness since then
    seen |-> NoCall         \* what the latest validateToken invocation saw
  ]


\* a condition as the number it adds
Bit(b) == IF b THEN 1 ELSE 0

\* ------------------------------------------------- one step of one invocation
\* The code between two awaits reads and writes the service's fields and the
\* invocation's own locals; a step works on this record and commits it.
Ctx(t) ==
  [ valid |-> isTokenValid, last |-> lastTokenCheck, sent |-> notificationSent,
    now |-> now, tk |-> task[t], obs |-> obs, ev |-> {}, t |-> t ]

CommitService(t, g) ==
  /\ isTokenValid' = g.valid
  /\ lastTokenCheck' = g.last
  /\ notificationSent' = g.sent
  /\ task' = [task EXCEPT ![t] = g.tk]
  /\ obs' = g.obs
  /\ events' = g.ev
  /\ UNCHANGED <<queueVars, oauthVars, hookVars>>

Commit(t, g) ==
  /\ CommitService(t, g)
  /\ UNCHANGED tickVars

\* return from the invocation
Finish(g, ret, reAuth) ==
  [g EXCEPT !.tk.pc = "done", !.tk.ret = ret, !.tk.requiresReAuth = reAuth]

\* Observation: a provider call succeeded, the failure episode is over.
Recovered(g) == [g EXCEPT !.obs.epFails = 0, !.obs.epNotifs = 0]

\* Observation: an auth-class failure was caught.
AuthFailure(g) == [g EXCEPT !.obs.epFails = @ + 1, !.ev = @ \cup {"auth_fail"}]

\* this.isTokenValid = false
Invalidate(g) == [g EXCEPT !.valid = FALSE, !.obs.invalidSince = TRUE]

\* sendEmail: for (let attempt = 1; attempt <= maxRetries; attempt++) { try { await getAccessToken()
SendLoop(g) ==
  IF g.tk.attempt <= g.tk.maxRetries
  THEN [g EXCEPT !.tk.pc = "s_token"]
  ELSE Finish(g, "failed", FALSE)

\* Mutant: sendEmail goes on to its attempts whatever validateToken returned.
SendAfterValidate_IgnoresGuard(g, tokenValid) ==
  SendLoop([g EXCEPT !.tk.attempt = 1])

\* sendEmail after `const tokenValid = await this.validateToken()`
SendAfterValidate(g, tokenValid) ==
  IF ~tokenValid
  THEN Finish(g, "failed", TRUE)
  ELSE SendLoop([g EXCEPT !.tk.attempt = 1])

\* Mutant: a successful refresh leaves notificationSent as it was.
RefreshAfterValidate_KeepsSuppression(g, isValid) ==
  IF isValid
  THEN Finish(Recovered([g EXCEPT !.valid = TRUE, !.ev = @ \cup {"refresh_ok"}]), "true", FALSE)
  ELSE Finish(g, "false", FALSE)

\* refreshToken after `const isValid = await this.validateToken()`
RefreshAfterValidate(g, isValid) ==
  IF isValid
  THEN Finish(Recovered([g EXCEPT !.valid = TRUE, !.sent = FALSE,
                                  !.ev = @ \cup {"refresh_ok"}]), "true", FALSE)
  ELSE Finish(g, "false", FALSE)

\* validateToken returns v to whoever awaited it
ValidateReturn(g, v) ==
  LET g1 == [g EXCEPT !.tk.vres = IF v THEN "true" ELSE "false"]
  IN CASE g.tk.op = "validateToken" -> Finish(g1, IF v THEN "true" ELSE "false", FALSE)
       [] g.tk.op = "sendEmail" -> SendAfterValidate(g1, v)
       [] g.tk.op = "refreshToken" -> RefreshAfterValidate(g1, v)

\* the statement after `await this.handleAuthError()` in each of its callers
AfterHandleAuthError(g, caller) ==
  CASE caller = "v_notify" -> ValidateReturn(g, FALSE)
    [] caller = "s_notify" -> Finish(g, "failed", TRUE)
    [] caller = "r_notify" -> Finish(g, "false", FALSE)

\* handleAuthError up to `await this.notifyAuthError()`
handleAuthError(g, caller) ==
  LET g1 == [g EXCEPT !.ev = @ \cup {"hook"}]
  IN IF ~g1.sent
     THEN [g1 EXCEPT !.sent = TRUE,
                     !.obs.epNotifs = @ + 1,
                     !.tk.pc = caller,
                     !.ev = @ \cup {"notify"}]
     ELSE AfterHandleAuthError(g1, caller)

\* Mutant: every failed probe clears liveness and escalates.
ValidateCatch_AlwaysEscalates(g, error) ==
  LET g1 == [g EXCEPT !.obs.vRes = IF g.obs.vBy = g.t THEN "fail" ELSE @,
                      !.ev = @ \cup {"probe_fail", ErrorClass(error)} \cup ErrorTags(error)]
  IN handleAuthError(AuthFailure(Invalidate(g1)), "v_notify")

\* Mutant: a retryable error is not looked up in the auth table.
ValidateCatch_TransientFirst(g, error) ==
  LET g1 == [g EXCEPT !.obs.vRes = IF g.obs.vBy = g.t THEN "fail" ELSE @,
                      !.ev = @ \cup {"probe_fail", ErrorClass(error)} \cup ErrorTags(error)]
  IN IF isRetryableError(error)
     THEN ValidateReturn(g1, FALSE)
     ELSE IF isAuthenticationError(error)
     THEN handleAuthError(AuthFailure(Invalidate(g1)), "v_notify")
     ELSE ValidateReturn(g1, FALSE)

\* validateToken: catch (error)
ValidateCatch(g, error) ==
  LET g1 == [g EXCEPT !.obs.vRes = IF g.obs.vBy = g.t THEN "fail" ELSE @,
                      !.ev = @ \cup {"probe_fail", ErrorClass(error)} \cup ErrorTags(error)]
  IN IF isAuthenticationError(error)
     THEN handleAuthError(AuthFailure(Invalidate(g1)), "v_notify")
     ELSE ValidateReturn(g1, FALSE)

\* Mutant: a successful probe leaves lastTokenCheck as it was.
ValidateProbeOk_NoStamp(g) ==
  LET g1 == [g EXCEPT !.valid = TRUE,
                      !.obs.vRes = IF g.obs.vBy = g.t THEN "ok" ELSE @,
                      !.obs.probeOkAt = g.now,
                      !.obs.invalidSince = FALSE,
                      !.ev = @ \cup {"probe_ok"}]
  IN ValidateReturn(Recovered(g1), TRUE)

\* validateToken: the probe succeeded
ValidateProbeOk(g) ==
  LET g1 == [g EXCEPT !.valid = TRUE,
                      !.last = g.now,
                      !.obs.vRes = IF g.obs.vBy = g.t THEN "ok" ELSE @,
                      !.obs.probeOkAt = g.now,
                      !.obs.invalidSince = FALSE,
                      !.ev = @ \cup {"probe_ok"}]
  IN ValidateReturn(Recovered(g1), TRUE)

\* Mutant: the cached return is taken on the age of lastTokenCheck alone.
validateToken_IgnoresFlag(g) ==
  LET fiveMinutesAgo == g.now - GraceWindow
      hit == g.last > fiveMinutesAgo
      seen == [ called |-> TRUE, probed |-> ~hit,
                hasPrev |-> g.obs.vBy # "none",
                prevProbed |-> g.obs.vProbed,
                prevRes |-> g.obs.vRes,
                withinStart |-> g.now - g.obs.vAt < GraceWindow,
                withinDone |-> g.now - g.obs.probeOkAt < GraceWindow,
                clean |-> ~g.obs.invalidSince ]
      g1 == [g EXCEPT !.obs.seen = seen,
                      !.obs.vBy = g.t, !.obs.vAt = g.now, !.obs.vProbed = ~hit,
                      !.obs.vRes = IF hit THEN "hit" ELSE "pending"]
  IN IF hit
     THEN ValidateReturn([g1 EXCEPT !.ev = @ \cup {"cache_hit"}], TRUE)
     ELSE [g1 EXCEPT !.tk.pc = "v_token", !.ev = @ \cup {"probe_start"}]

\* validateToken from its first line to its first await (or its cached return)
validateToken(g) ==
  LET fiveMinutesAgo == g.now - GraceWindow
      hit == g.valid /\ g.last > fiveMinutesAgo
      seen == [ called |-> TRUE, probed |-> ~hit,
                hasPrev |-> g.obs.vBy # "none",
                prevProbed |-> g.obs.vProbed,
                prevRes |-> g.obs.vRes,
                withinStart |-> g.now - g.obs.vAt < GraceWindow,
                withinDone |-> g.now - g.obs.probeOkAt < GraceWindow,
                clean |-> ~g.obs.invalidSince ]
      g1 == [g EXCEPT !.obs.seen = seen,
                      !.obs.vBy = g.t, !.obs.vAt = g.now, !.obs.vProbed = ~hit,
                      !.obs.vRes = IF hit THEN "hit" ELSE "pending"]
  IN IF hit
     THEN ValidateReturn([g1 EXCEPT !.ev = @ \cup {"cache_hit"}], TRUE)
     ELSE [g1 EXCEPT !.tk.pc = "v_token", !.ev = @ \cup {"probe_start"}]

\* Mutant: a successful send leaves notificationSent as it was.
SendSuccess_KeepsSuppression(g) ==
  Finish(Recovered([g EXCEPT !.valid = TRUE,
                             !.tk.outs = Append(@, "ok"),
                             !.ev = @ \cup {"send_ok"}]), "sent", FALSE)

\* Mutant: a successful send also refreshes lastTokenCheck.
SendSuccess_Stamps(g) ==
  Finish(Recovered([g EXCEPT !.sent = FALSE, !.valid = TRUE, !.last = g.now,
                             !.tk.outs = Append(@, "ok"),
                             !.ev = @ \cup {"send_ok"}]), "sent", FALSE)

\* sendEmail: the provider accepted the message
SendSuccess(g) ==
  Finish(Recovered([g EXCEPT !.sent = FALSE, !.valid = TRUE,
                             !.tk.outs = Append(@, "ok"),
                             !.ev = @ \cup {"send_ok"}]), "sent", FALSE)

\* Mutant: the retry test comes before the auth test, so an auth-class error
\* that is also retryable is retried.
SendCatch_RetriesAuth(g, error) ==
  LET isLastAttempt == g.tk.attempt = g.tk.maxRetries
      g1 == [g EXCEPT !.tk.outs = Append(@, ErrorClass(error)), !.ev = @ \cup {"send_fail"} \cup ErrorTags(error)]
      delay == 2 ^ (g.tk.attempt - 1)
  IN IF ~isLastAttempt /\ isRetryableError(error)
     THEN [g1 EXCEPT !.tk.pc = "s_wait",
                     !.tk.wake = g.now + delay,
                     !.tk.waits = Append(@, delay)]
     ELSE IF isAuthenticationError(error)
     THEN handleAuthError(AuthFailure(Invalidate(g1)), "s_notify")
     ELSE Finish(g1, "failed", FALSE)

\* Mutant: the backoff is 2^attempt seconds.
SendCatch_DoubleDelay(g, error) ==
  LET isLastAttempt == g.tk.attempt = g.tk.maxRetries
      g1 == [g EXCEPT !.tk.outs = Append(@, ErrorClass(error)), !.ev = @ \cup {"send_fail"} \cup ErrorTags(error)]
      delay == 2 ^ g.tk.attempt
  IN IF isAuthenticationError(error)
     THEN handleAuthError(AuthFailure(Invalidate(g1)), "s_notify")
     ELSE IF isLastAttempt \/ ~isRetryableError(error)
     THEN Finish(g1, "failed", FALSE)
     ELSE [g1 EXCEPT !.tk.pc = "s_wait",
                     !.tk.wake = g.now + delay,
                     !.tk.waits = Append(@, delay)]

\* Mutant: a retryable failure is retried at once, without a backoff wait.
SendCatch_NoBackoff(g, error) ==
  LET isLastAttempt == g.tk.attempt = g.tk.maxRetries
      g1 == [g EXCEPT !.tk.outs = Append(@, ErrorClass(error)), !.ev = @ \cup {"send_fail"} \cup ErrorTags(error)]
  IN IF isAuthenticationError(error)
     THEN handleAuthError(AuthFailure(Invalidate(g1)), "s_notify")
     ELSE IF isLastAttempt \/ ~isRetryableError(error)
     THEN Finish(g1, "failed", FALSE)
     ELSE SendLoop([g1 EXCEPT !.tk.attempt = @ + 1])

\* sendEmail: catch (error)
SendCatch(g, error) ==
  LET isLastAttempt == g.tk.attempt = g.tk.maxRetries
      g1 == [g EXCEPT !.tk.outs = Append(@, ErrorClass(error)), !.ev = @ \cup {"send_fail"} \cup ErrorTags(error)]
      delay == 2 ^ (g.tk.attempt - 1)
  IN IF isAuthenticationError(error)
     THEN handleAuthError(AuthFailure(Invalidate(g1)), "s_notify")
     ELSE IF isLastAttempt \/ ~isRetryableError(error)
     THEN Finish(g1, "failed", FALSE)
     ELSE [g1 EXCEPT !.tk.pc = "s_wait",
                     !.tk.wake = g.now + delay,
                     !.tk.waits = Append(@, delay)]

\* refreshToken: catch (error)
RefreshCatch(g, error) ==
  IF isAuthenticationError(error)
  THEN handleAuthError(AuthFailure(g), "r_notify")
  ELSE Finish(g, "false", FALSE)

\* the callback of the interval of startTokenMonitoring: foundInvalid is
\* !status.valid as it read it, sinceOk whether the provider had recovered by
\* then, refreshed what its refreshToken returned, ticks the ticks before
\* the provider recovered
MaxTicks == 2
IdleMonitor ==
  [ pc |-> "idle", foundInvalid |-> FALSE, sinceOk |-> FALSE, refreshed |-> "none", ticks |-> 0 ]

\* ------------------------------------------------------ GmailService actions
GmailInit ==
  /\ isTokenValid = TRUE
  /\ lastTokenCheck = 0
  /\ notificationSent = FALSE
  /\ now = 0
  /\ task = [t \in Tasks |-> IdleTask]
  /\ calls = 0
  /\ obs = InitObs
  /\ events = {}
  /\ monitor = IdleMonitor
  /\ providerOk = FALSE

NewTask(t, op, maxRetries) ==
  [Ctx(t) EXCEPT !.tk = [IdleTask EXCEPT !.op = op, !.maxRetries = maxRetries]]

\* a caller invokes validateToken()
CallValidateToken(t, limit) ==
  /\ task[t].pc = "idle"
  /\ calls < limit
  /\ calls' = calls + 1
  /\ Commit(t, validateToken(NewTask(t, "validateToken", 0)))
  /\ UNCHANGED now

\* a caller invokes sendEmail(options, maxRetries)
CallSendEmail(t, limit, choices) ==
  /\ task[t].pc = "idle"
  /\ calls < limit
  /\ calls' = calls + 1
  /\ \E maxRetries \in choices :
       Commit(t, validateToken(NewTask(t, "sendEmail", maxRetries)))
  /\ UNCHANGED now

\* a caller invokes refreshToken(): up to `await this.oauth2Client.refreshAccessToken()`
CallRefreshToken(t, limit) ==
  /\ task[t].pc = "idle"
  /\ calls < limit
  /\ calls' = calls + 1
  /\ Commit(t, [NewTask(t, "refreshToken", 0) EXCEPT !.tk.pc = "r_refresh"])
  /\ UNCHANGED now

\* validateToken: getAccessToken() resolved with a token; getProfile is called
ProbeTokenOk(t) ==
  /\ task[t].pc = "v_token"
  /\ Commit(t, [Ctx(t) EXCEPT !.tk.pc = "v_profile"])
  /\ UNCHANGED <<now, calls>>

\* validateToken: getAccessToken() resolved without a token
ProbeTokenMissing(t) ==
  /\ task[t].pc = "v_token"
  /\ Commit(t, ValidateCatch(Ctx(t), NoAccessToken))
  /\ UNCHANGED <<now, calls>>

\* validateToken: getAccessToken() rejected
ProbeTokenError(t) ==
  /\ task[t].pc = "v_token"
  /\ \E error \in Errors : Commit(t, ValidateCatch(Ctx(t), error))
  /\ UNCHANGED <<now, calls>>

\* validateToken: getProfile() resolved
ProbeProfileOk(t) ==
  /\ task[t].pc = "v_profile"
  /\ Commit(t, ValidateProbeOk(Ctx(t)))
  /\ UNCHANGED <<now, calls>>

\* validateToken: getProfile() rejected
ProbeProfileError(t) ==
  /\ task[t].pc = "v_profile"
  /\ \E error \in Errors : Commit(t, ValidateCatch(Ctx(t), error))
  /\ UNCHANGED <<now, calls>>

\* handleAuthError: notifyAuthError() settled (it swallows its own failures),
\* then `if (this.reAuthCallback) this.reAuthCallback()` and the caller goes on
NotifyDone(t) ==
  /\ task[t].pc \in {"v_notify", "s_notify", "r_notify"}
  /\ Commit(t, AfterHandleAuthError(
                 [Ctx(t) EXCEPT !.ev = {"callback"}],
                 task[t].pc))
  /\ UNCHANGED <<now, calls>>

\* sendEmail: getAccessToken() resolved; the message is handed to the provider
SendTokenOk(t) ==
  /\ task[t].pc = "s_token"
  /\ Commit(t, [Ctx(t) EXCEPT !.tk.pc = "s_send", !.tk.sendCalls = @ + 1])
  /\ UNCHANGED <<now, calls>>

\* sendEmail: getAccessToken() rejected
SendTokenError(t) ==
  /\ task[t].pc = "s_token"
  /\ \E error \in Errors : Commit(t, SendCatch(Ctx(t), error))
  /\ UNCHANGED <<now, calls>>

\* sendEmail: gmail.users.messages.send resolved
SendOk(t) ==
  /\ task[t].pc = "s_send"
  /\ Commit(t, SendSuccess(Ctx(t)))
  /\ UNCHANGED <<now, calls>>

\* sendEmail: gmail.users.messages.send rejected
SendError(t) ==
  /\ task[t].pc = "s_send"
  /\ \E error \in Errors : Commit(t, SendCatch(Ctx(t), error))
  /\ UNCHANGED <<now, calls>>

\* Mutant: the next attempt starts without waiting for the backoff timer.
SendWake_Early(t) ==
  /\ task[t].pc = "s_wait"
  /\ Commit(t, SendLoop([Ctx(t) EXCEPT !.tk.attempt = @ + 1, !.ev = {"wake"}]))
  /\ UNCHANGED <<now, calls>>

\* sendEmail: the backoff timer fired; attempt++ and the loop test
SendWake(t) ==
  /\ task[t].pc = "s_wait"
  /\ now >= task[t].wake
  /\ Commit(t, SendLoop([Ctx(t) EXCEPT !.tk.attempt = @ + 1, !.ev = {"wake"}]))
  /\ UNCHANGED <<now, calls>>

\* refreshToken: refreshAccessToken() resolved; setCredentials, then validateToken()
RefreshOk(t) ==
  /\ task[t].pc = "r_refresh"
  /\ Commit(t, validateToken(Ctx(t)))
  /\ UNCHANGED <<now, calls>>

\* refreshToken: refreshAccessToken() rejected
RefreshError(t) ==
  /\ task[t].pc = "r_refresh"
  /\ \E error \in Errors : Commit(t, RefreshCatch(Ctx(t), error))
  /\ UNCHANGED <<now, calls>>

\* the caller takes the result; the slot is free for the next invocation
Return(t) ==
  /\ task[t].pc = "done"
  /\ task' = [task EXCEPT ![t] = IdleTask]
  /\ events' = {"return"}
  /\ UNCHANGED <<isTokenValid, lastTokenCheck, notificationSent, now, calls, obs, tickVars>>
  /\ UNCHANGED <<queueVars, oauthVars, hookVars>>

\* Time passes: to the next backoff timer, or by a whole grace window.
Advance ==
  /\ \E next \in {task[t].wake : t \in {u \in Tasks : task[u].pc = "s_wait"}} \cup {now + GraceWindow} :
       /\ next > now
       /\ next <= MaxTime
       /\ now' = next
  /\ events' = {"advance"}
  /\ UNCHANGED <<isTokenValid, lastTokenCheck, notificationSent, task, calls, obs, tickVars>>
  /\ UNCHANGED <<queueVars, oauthVars, hookVars>>

\* the interval fires: `if (!status.valid)` the callback awaits
\* service.refreshToken(), else it goes to `await service.testConnection()`
MonitorTick(t) ==
  /\ monitor.pc = "idle"
  /\ task[t].pc = "idle"
  /\ providerOk \/ monitor.ticks < MaxTicks
  /\ IF ~isTokenValid
     THEN /\ CommitService(t, [NewTask(t, "refreshToken", 0) EXCEPT !.tk.pc = "r_refresh"])
          /\ monitor' = [ pc |-> "m_refresh", foundInvalid |-> TRUE,
                          sinceOk |-> providerOk, refreshed |-> "none",
                          ticks |-> monitor.ticks + Bit(~providerOk) ]
     ELSE /\ monitor' = [IdleMonitor EXCEPT !.pc = "m_test",
                                            !.ticks = monitor.ticks + Bit(~providerOk)]
          /\ events' = {"tick"}
          /\ UNCHANGED <<isTokenValid, lastTokenCheck, notificationSent, task, obs>>
          /\ UNCHANGED <<queueVars, oauthVars, hookVars>>
  /\ UNCHANGED <<now, calls, providerOk>>

\* the callback has the result of refreshToken and calls testConnection
MonitorRefreshed(t) ==
  /\ monitor.pc = "m_refresh"
  /\ task[t].pc = "done"
  /\ monitor' = [monitor EXCEPT !.pc = "m_test", !.refreshed = task[t].ret]
  /\ task' = [task EXCEPT ![t] = IdleTask]
  /\ events' = {"return"}
  /\ UNCHANGED <<isTokenValid, lastTokenCheck, notificationSent, now, calls, obs, providerOk>>
  /\ UNCHANGED <<queueVars, oauthVars, hookVars>>

\* testConnection settled: getAccessToken and getProfile resolved, or one of
\* them rejected and the catch returned false; the callback logs and ends
TestConnectionDone ==
  /\ monitor.pc = "m_test"
  /\ \E isWorking \in {TRUE} \cup (IF providerOk THEN {} ELSE {FALSE}) :
       events' = {IF isWorking THEN "test_ok" ELSE "test_fail"}
  /\ monitor' = [monitor EXCEPT !.pc = "idle"]
  /\ UNCHANGED <<isTokenValid, lastTokenCheck, notificationSent, now, task, calls, obs, providerOk>>
  /\ UNCHANGED <<queueVars, oauthVars, hookVars>>

\* from here on the calls to the provider succeed
ProviderRecovers ==
  /\ ~providerOk
  /\ providerOk' = TRUE
  /\ events' = {"provider_ok"}
  /\ UNCHANGED <<isTokenValid, lastTokenCheck, notificationSent, now, task, calls, obs, monitor>>
  /\ UNCHANGED <<queueVars, oauthVars, hookVars>>

GmailStep(t, limit, choices) ==
  \/ CallValidateToken(t, limit)
  \/ CallSendEmail(t, limit, choices)
  \/ CallRefreshToken(t, limit)
  \/ ProbeTokenOk(t)
  \/ ProbeTokenMissing(t)
  \/ ProbeTokenError(t)
  \/ ProbeProfileOk(t)
  \/ ProbeProfileError(t)
  \/ NotifyDone(t)
  \/ SendTokenOk(t)
  \/ SendTokenError(t)
  \/ SendOk(t)
  \/ SendError(t)
  \/ SendWake(t)
  \/ RefreshOk(t)
  \/ RefreshError(t)
  \/ Return(t)

\* a caller invokes sendConfirmationEmail(userEmail, userName, requestMessage,
\* language): up to `const template = await this.loadEmailTemplate()`
CallSendConfirmationEmail(t, limit) ==
  /\ task[t].pc = "idle"
  /\ calls < limit
  /\ calls' = calls + 1
  /\ Commit(t, [NewTask(t, "sendConfirmationEmail", DefaultMaxRetries) EXCEPT !.tk.pc = "c_template"])
  /\ UNCHANGED now

\* sendConfirmationEmail: templates/email.html was read; loadImagesAsBase64
\* contains its own failures; `return this.sendEmail(options)`
TemplateLoaded(t) ==
  /\ task[t].pc = "c_template"
  /\ Commit(t, validateToken([Ctx(t) EXCEPT !.tk.op = "sendEmail"]))
  /\ UNCHANGED <<now, calls>>

\* sendConfirmationEmail: fs.readFile in loadEmailTemplate rejected; nothing
\* catches it and the promise sendConfirmationEmail returned is rejected
TemplateThrew(t) ==
  /\ task[t].pc = "c_template"
  /\ Commit(t, Finish([Ctx(t) EXCEPT !.ev = {"template_threw"}], "threw", FALSE))
  /\ UNCHANGED <<now, calls>>

ConfirmationStep(t, limit) ==
  \/ CallSendConfirmationEmail(t, limit)
  \/ TemplateLoaded(t)
  \/ TemplateThrew(t)

\* ---------------------------------------------- EmailFallbackService actions
\* An entry object: its identity and the fields the drain reads.
EntryTypes == {"confirmation", "response"}

IdleDrain ==
  [ pc |-> "idle", snapshot |-> <<>>, i |-> 0, success |-> 0, failed |-> 0,
    summary |-> [sent |-> FALSE, success |-> 0, failed |-> 0],
    tried |-> <<>>, disturbed |-> FALSE, added |-> {} ]

\* noticeOk: whether the failure notice reached the chat; threw: whether the
\* invocation ended by throwing
IdleEnq == [ pc |-> "idle", requiresReAuth |-> FALSE, noticeOk |-> TRUE, threw |-> FALSE ]

QueueInit ==
  /\ failedEmails = <<>>
  /\ nextId = 1
  /\ drain = [d \in Drains |-> IdleDrain]
  /\ enq = [e \in Enqs |-> IdleEnq]
  /\ qobs = [ reAuthBroadcast |-> FALSE, resent |-> {} ]

\* Mutant: the list is cut at the resent entry instead of filtered, so what
\* was pushed behind it goes too.
RemoveEntry_AndLater(list, failedEmail) ==
  LET Before(email) == email.id < failedEmail.id
  IN SelectSeq(list, Before)

\* Mutant: the filtered list is computed and dropped, failedEmails stays.
RemoveEntry_Unassigned(list, failedEmail) == list

\* Mutant: the filter compares the fields of the entries, not the objects.
RemoveEntry_ByFields(list, failedEmail) ==
  LET Other(email) == email.type # failedEmail.type
  IN SelectSeq(list, Other)

\* this.failedEmails.filter(email => email !== failedEmail), on object identity
RemoveEntry(list, failedEmail) ==
  LET Other(email) == email.id # failedEmail.id
  IN SelectSeq(list, Other)

\* Observation: every retryFailedEmails invocation in progress had the list
\* cleared, or another invocation at work, under it.
Disturb(drains) ==
  [d \in Drains |-> IF drains[d].pc # "idle" THEN [drains[d] EXCEPT !.disturbed = TRUE] ELSE drains[d]]

\* Observation: the entry object `id` was pushed after these retryFailedEmails
\* invocations took their snapshot.
Added(drains, id) ==
  [d \in Drains |->
     IF drains[d].pc # "idle"
     THEN [drains[d] EXCEPT !.added = @ \cup {id}]
     ELSE drains[d]]

\* handleFailedEmail: failedEmails.push(...) up to `await this.notifyFailedEmail(...)`
CallHandleFailedEmail(e) ==
  /\ enq[e].pc = "idle"
  /\ nextId <= MaxEntries
  /\ \E type \in EntryTypes, requiresReAuth \in BOOLEAN :
       /\ failedEmails' = Append(failedEmails, [id |-> nextId, type |-> type])
       /\ enq' = [enq EXCEPT ![e] = [IdleEnq EXCEPT !.pc = "e_notify",
                                                  !.requiresReAuth = requiresReAuth]]
  /\ nextId' = nextId + 1
  /\ drain' = Added(drain, nextId)
  /\ UNCHANGED qobs
  /\ UNCHANGED <<gmailVars, oauthVars, hookVars>>

\* Mutant: notifyFailedEmail without its try/catch; a failed chat call
\* rejects handleFailedEmail.
AfterFailedNotice_Rethrows(en, ok) ==
  IF ~ok
  THEN [IdleEnq EXCEPT !.threw = TRUE]
  ELSE IF en.requiresReAuth
       THEN [en EXCEPT !.pc = "e_reauth", !.noticeOk = ok]
       ELSE IdleEnq

\* handleFailedEmail after `await this.notifyFailedEmail(...)`: the chat call
\* resolved (ok) or rejected and was caught inside notifyFailedEmail (~ok);
\* `if (emailResponse.requiresReAuth) await this.notifyReAuthRequired()`
AfterFailedNotice(en, ok) ==
  IF en.requiresReAuth
  THEN [en EXCEPT !.pc = "e_reauth", !.noticeOk = ok]
  ELSE IdleEnq

\* handleFailedEmail: notifyFailedEmail settled; notifyReAuthRequired is
\* entered with no guard but requiresReAuth
FailedNoticeDone(e) ==
  /\ enq[e].pc = "e_notify"
  /\ \E ok \in BOOLEAN :
       enq' = [enq EXCEPT ![e] = AfterFailedNotice(enq[e], ok)]
  /\ qobs' = IF enq'[e].pc = "e_reauth"
             THEN [qobs EXCEPT !.reAuthBroadcast = TRUE]
             ELSE qobs
  /\ UNCHANGED <<failedEmails, nextId, drain>>
  /\ UNCHANGED <<gmailVars, oauthVars, hookVars>>

\* handleFailedEmail: notifyReAuthRequired settled; return
ReAuthNoticeDone(e) ==
  /\ enq[e].pc = "e_reauth"
  /\ enq' = [enq EXCEPT ![e] = IdleEnq]
  /\ UNCHANGED <<failedEmails, nextId, drain, qobs>>
  /\ UNCHANGED <<gmailVars, oauthVars, hookVars>>

\* retryFailedEmails from its first line to the first resend it awaits
retryFailedEmails(dr, list) ==
  IF Len(list) = 0
  THEN [dr EXCEPT !.pc = "done"]
  ELSE [dr EXCEPT !.pc = "d_send", !.snapshot = list, !.i = 1]

\* a caller (the auto-retry timer, or anyone) invokes retryFailedEmails
CallRetryFailedEmails(d) ==
  /\ drain[d].pc = "idle"
  /\ drain' = [x \in Drains |->
                 IF x = d
                 THEN [retryFailedEmails(IdleDrain, failedEmails) EXCEPT
                         !.disturbed = \E y \in Drains : drain[y].pc \notin {"idle", "done"}]
                 ELSE IF drain[x].pc # "idle"
                      THEN [drain[x] EXCEPT !.disturbed = TRUE]
                      ELSE drain[x]]
  /\ UNCHANGED <<failedEmails, nextId, enq, qobs>>
  /\ UNCHANGED <<gmailVars, oauthVars, hookVars>>

\* Mutant: the catch block of the loop does not count the entry as failed.
AfterResend_ThrownUncounted(dr, outcome) ==
  LET failedEmail == dr.snapshot[dr.i]
      dr1 == [dr EXCEPT !.tried = Append(@, failedEmail.id), !.pc = "d_wait"]
  IN CASE outcome = "success" -> [dr1 EXCEPT !.success = @ + 1]
       [] outcome = "failed"  -> [dr1 EXCEPT !.failed = @ + 1]
       [] OTHER               -> dr1

\* retryFailedEmails: `if (result.success)` and what follows the resend, up to
\* the one-second pause
AfterResend(dr, outcome) ==
  LET failedEmail == dr.snapshot[dr.i]
      dr1 == [dr EXCEPT !.tried = Append(@, failedEmail.id), !.pc = "d_wait"]
  IN IF outcome = "success"
     THEN [dr1 EXCEPT !.success = @ + 1]
     ELSE [dr1 EXCEPT !.failed = @ + 1]

\* retryFailedEmails: the resend resolved with success = true
ResendOk(d) ==
  /\ drain[d].pc = "d_send"
  /\ LET failedEmail == drain[d].snapshot[drain[d].i]
     IN /\ failedEmails' = RemoveEntry(failedEmails, failedEmail)
        /\ qobs' = [qobs EXCEPT !.resent = @ \cup {failedEmail.id}, !.reAuthBroadcast = FALSE]
  /\ drain' = [drain EXCEPT ![d] = AfterResend(drain[d], "success")]
  /\ UNCHANGED <<nextId, enq>>
  /\ UNCHANGED <<gmailVars, oauthVars, hookVars>>

\* Mutant: the entry is filtered out before `if (result.success)`.
ResendFailed_Removes(d) ==
  /\ drain[d].pc = "d_send"
  /\ failedEmails' = RemoveEntry(failedEmails, drain[d].snapshot[drain[d].i])
  /\ drain' = [drain EXCEPT ![d] = AfterResend(drain[d], "failed")]
  /\ UNCHANGED <<nextId, enq, qobs>>
  /\ UNCHANGED <<gmailVars, oauthVars, hookVars>>

\* retryFailedEmails: the resend resolved with success = false
ResendFailed(d) ==
  /\ drain[d].pc = "d_send"
  /\ drain' = [drain EXCEPT ![d] = AfterResend(drain[d], "failed")]
  /\ UNCHANGED <<failedEmails, nextId, enq, qobs>>
  /\ UNCHANGED <<gmailVars, oauthVars, hookVars>>

\* retryFailedEmails: the resend threw; catch (error)
ResendThrew(d) ==
  /\ drain[d].pc = "d_send"
  /\ drain' = [drain EXCEPT ![d] = AfterResend(drain[d], "threw")]
  /\ UNCHANGED <<failedEmails, nextId, enq, qobs>>
  /\ UNCHANGED <<gmailVars, oauthVars, hookVars>>

\* retryFailedEmails: the one-second pause is over; the next entry of the
\* snapshot, or notifyRetryResults(retryResults) after the last one
AfterPause(dr) ==
  IF dr.i < Len(dr.snapshot)
  THEN [dr EXCEPT !.i = @ + 1, !.pc = "d_send"]
  ELSE [dr EXCEPT !.pc = "d_notify",
                  !.summary = [sent |-> TRUE, success |-> dr.success, failed |-> dr.failed]]

PauseDone(d) ==
  /\ drain[d].pc = "d_wait"
  /\ drain' = [drain EXCEPT ![d] = AfterPause(drain[d])]
  /\ UNCHANGED <<failedEmails, nextId, enq, qobs>>
  /\ UNCHANGED <<gmailVars, oauthVars, hookVars>>

\* retryFailedEmails: notifyRetryResults settled (it swallows its own failures)
SummaryDone(d) ==
  /\ drain[d].pc = "d_notify"
  /\ drain' = [drain EXCEPT ![d].pc = "done"]
  /\ UNCHANGED <<failedEmails, nextId, enq, qobs>>
  /\ UNCHANGED <<gmailVars, oauthVars, hookVars>>

\* the caller of retryFailedEmails goes on; the slot is free again
DrainReturn(d) ==
  /\ drain[d].pc = "done"
  /\ drain' = [drain EXCEPT ![d] = IdleDrain]
  /\ UNCHANGED <<failedEmails, nextId, enq, qobs>>
  /\ UNCHANGED <<gmailVars, oauthVars, hookVars>>

\* clearFailedEmails()
ClearFailedEmails ==
  /\ failedEmails # <<>>
  /\ failedEmails' = <<>>
  /\ UNCHANGED qobs
  /\ drain' = Disturb(drain)
  /\ UNCHANGED <<nextId, enq>>
  /\ UNCHANGED <<gmailVars, oauthVars, hookVars>>

QueueStep ==
  \/ \E e \in Enqs : CallHandleFailedEmail(e)
  \/ \E e \in Enqs : FailedNoticeDone(e)
  \/ \E e \in Enqs : ReAuthNoticeDone(e)
  \/ \E d \in Drains : CallRetryFailedEmails(d)
  \/ \E d \in Drains : ResendOk(d)
  \/ \E d \in Drains : ResendFailed(d)
  \/ \E d \in Drains : ResendThrew(d)
  \/ \E d \in Drains : PauseDone(d)
  \/ \E d \in Drains : SummaryDone(d)
  \/ \E d \in Drains : DrainReturn(d)
  \/ ClearFailedEmails

\* ------------------------------------------------- /oauth/callback actions
\* The credentials one code exchange returns: serial tells exchanges apart,
\* account is the mailbox that granted them, access_token is absent from what
\* testGmailAccess sets on the client.
NoTokens ==
  [ serial |-> 0, account |-> Undefined, refresh_token |-> FALSE, access_token |-> FALSE ]

requiredEmail == "supprtblockroyale@gmail.com"

Accounts == {requiredEmail, "someone@gmail.com", Undefined}

NoFile == [ refreshToken |-> 0, account |-> Undefined, updatedBy |-> "none" ]

\* exchange, gmailAccessOk, save, notify: how the awaited call went; validated, email: the
\* identity check; page, terminal, cause: how the run ended
IdleRun ==
  [ pc |-> "idle", serial |-> 0, exchange |-> "none", tokens |-> NoTokens,
    auth |-> NoTokens, validated |-> FALSE, email |-> "none",
    gmailAccessOk |-> "none", save |-> "none", notify |-> "none",
    page |-> "none", terminal |-> "none", cause |-> "none" ]

OAuthInit ==
  /\ credentials = NoTokens
  /\ tokenFile = NoFile
  /\ cb = [c \in Runs |-> IdleRun]
  /\ cbCount = 0

OCtx(c) == [ run |-> cb[c], credentials |-> credentials, tokenFile |-> tokenFile ]

OCommit(c, g) ==
  /\ cb' = [cb EXCEPT ![c] = g.run]
  /\ credentials' = g.credentials
  /\ tokenFile' = g.tokenFile
  /\ UNCHANGED cbCount
  /\ UNCHANGED <<gmailVars, queueVars, hookVars>>

\* catch (error): res.send(getErrorPage(...))
Fail(g, cause) ==
  [g EXCEPT !.run.pc = "done", !.run.terminal = "Failed",
            !.run.page = "error", !.run.cause = cause]

\* Mutant: validateTokens without setCredentials; the request goes out with
\* whatever the shared client holds.
validateTokens_NoSetCredentials(g) ==
  [g EXCEPT !.run.auth = g.credentials,
            !.run.validated = TRUE,
            !.run.pc = "x_userinfo"]

\* validateTokens up to `await oauth2Service.userinfo.get()`: the request is
\* issued in the step that set the credentials and carries them
validateTokens(g) ==
  LET g1 == [g EXCEPT !.credentials = g.run.tokens]
  IN [g1 EXCEPT !.run.auth = g1.credentials,
                !.run.validated = TRUE,
                !.run.pc = "x_userinfo"]

\* Mutant: getTokens without the refresh_token check.
getTokens_AcceptsNoRefresh(g, tokens) ==
  validateTokens([g EXCEPT !.run.tokens = tokens])

\* getTokens after `await this.oauth2Client.getToken(code)`, then the callback
\* goes on to validateTokens(tokens)
getTokens(g, tokens) ==
  IF ~tokens.refresh_token
  THEN Fail(g, "no_refresh")
  ELSE validateTokens([g EXCEPT !.run.tokens = tokens])

\* testGmailAccess up to `await gmail.users.getProfile(...)`
testGmailAccess(g) ==
  [g EXCEPT !.credentials = [g.run.tokens EXCEPT !.access_token = FALSE],
            !.run.pc = "x_test"]

\* Mutant: the allow-list comparison is left out.
AfterUserinfo_NoAllowList(g, email) ==
  testGmailAccess([g EXCEPT !.run.email = email])

\* the callback after `await oauth2Setup.validateTokens(tokens)`
AfterUserinfo(g, email) ==
  LET g1 == [g EXCEPT !.run.email = email]
  IN IF email # requiredEmail
     THEN [g1 EXCEPT !.run.pc = "done", !.run.terminal = "RejectedWrongAccount",
                     !.run.page = "wrong"]
     ELSE testGmailAccess(g1)

\* Mutant: the update notice is sent before the token is written.
AfterTest_NotifiesFirst(g) ==
  [g EXCEPT !.run.notify = "called", !.run.pc = "x_notify"]

\* Mutant: a failed access test ends the run with the error page.
AfterTest_RequiresAccess(g) ==
  IF g.run.gmailAccessOk = "true"
  THEN [g EXCEPT !.run.save = "called", !.run.pc = "x_save"]
  ELSE Fail(g, "no_access")

\* the callback after testGmailAccess: saveRefreshToken is called
AfterTest(g) ==
  [g EXCEPT !.run.save = "called", !.run.pc = "x_save"]

\* Mutant: the write patches the refreshToken field of the record it finds.
AfterSave_PatchesRecord(g) ==
  [g EXCEPT !.tokenFile = [g.tokenFile EXCEPT !.refreshToken = g.run.tokens.serial],
            !.run.save = "ok",
            !.run.notify = "called",
            !.run.pc = "x_notify"]

\* saveRefreshToken resolved; sendTokenUpdateNotification is called
AfterSave(g) ==
  [g EXCEPT !.tokenFile = [ refreshToken |-> g.run.tokens.serial,
                            account |-> g.run.tokens.account,
                            updatedBy |-> g.run.email ],
            !.run.save = "ok",
            !.run.notify = "called",
            !.run.pc = "x_notify"]

\* sendTokenUpdateNotification settled (it swallows its own failure);
\* res.send(getSuccessPage(...))
AfterUpdateNotice(g, ok) ==
  [g EXCEPT !.run.notify = IF ok THEN "ok" ELSE "failed",
            !.run.pc = "done",
            !.run.terminal = "Accepted",
            !.run.page = "success"]

\* GET /oauth/callback arrives: the checks on req.query, then getTokens(code)
CallbackArrives(c) ==
  /\ cb[c].pc \in {"idle", "done"}
  /\ cbCount < MaxCallbacks
  /\ cbCount' = cbCount + 1
  /\ \E query \in {"error", "nocode", "code"} :
       LET run == [IdleRun EXCEPT !.serial = cbCount + 1]
       IN cb' = [cb EXCEPT ![c] =
                   CASE query = "error"  -> [run EXCEPT !.pc = "done", !.terminal = "Failed",
                                                        !.page = "error", !.cause = "denied"]
                     [] query = "nocode" -> [run EXCEPT !.pc = "done", !.terminal = "Failed",
                                                        !.page = "error", !.cause = "no_code"]
                     [] OTHER            -> [run EXCEPT !.pc = "x_exchange"]]
  /\ UNCHANGED <<credentials, tokenFile>>
  /\ UNCHANGED <<gmailVars, queueVars, hookVars>>

\* the code exchange returned credentials with a refresh_token
ExchangeOk(c) ==
  /\ cb[c].pc = "x_exchange"
  /\ \E account \in Accounts :
       LET tokens == [ serial |-> cb[c].serial, account |-> account,
                       refresh_token |-> TRUE, access_token |-> TRUE ]
       IN OCommit(c, getTokens([OCtx(c) EXCEPT !.run.exchange = "ok"], tokens))

\* the code exchange returned credentials without a refresh_token
ExchangeNoRefresh(c) ==
  /\ cb[c].pc = "x_exchange"
  /\ \E account \in Accounts :
       LET tokens == [ serial |-> cb[c].serial, account |-> account,
                       refresh_token |-> FALSE, access_token |-> TRUE ]
       IN OCommit(c, getTokens([OCtx(c) EXCEPT !.run.exchange = "no_refresh"], tokens))

\* the code exchange threw
ExchangeThrew(c) ==
  /\ cb[c].pc = "x_exchange"
  /\ OCommit(c, Fail([OCtx(c) EXCEPT !.run.exchange = "threw"], "exchange_threw"))

\* userinfo.get() resolved with the identity of the credentials the request carried
UserinfoOk(c) ==
  /\ cb[c].pc = "x_userinfo"
  /\ OCommit(c, AfterUserinfo(OCtx(c), cb[c].auth.account))

\* userinfo.get() threw
UserinfoThrew(c) ==
  /\ cb[c].pc = "x_userinfo"
  /\ OCommit(c, Fail(OCtx(c), "userinfo_threw"))

\* testGmailAccess returned: getProfile resolved (true) or rejected and was
\* caught (false); `const gmailAccessOk = ...`
TestDone(c) ==
  /\ cb[c].pc = "x_test"
  /\ \E ok \in {"true", "false"} :
       OCommit(c, AfterTest([OCtx(c) EXCEPT !.run.gmailAccessOk = ok]))

SaveOk(c) ==
  /\ cb[c].pc = "x_save"
  /\ OCommit(c, AfterSave(OCtx(c)))

\* fs.writeFile rejected; saveRefreshToken rethrows
SaveThrew(c) ==
  /\ cb[c].pc = "x_save"
  /\ OCommit(c, Fail([OCtx(c) EXCEPT !.run.save = "threw"], "save_threw"))

UpdateNoticeDone(c) ==
  /\ cb[c].pc = "x_notify"
  /\ \E ok \in BOOLEAN : OCommit(c, AfterUpdateNotice(OCtx(c), ok))

OAuthStep ==
  \/ \E c \in Runs : CallbackArrives(c)
  \/ \E c \in Runs : ExchangeOk(c)
  \/ \E c \in Runs : ExchangeNoRefresh(c)
  \/ \E c \in Runs : ExchangeThrew(c)
  \/ \E c \in Runs : UserinfoOk(c)
  \/ \E c \in Runs : UserinfoThrew(c)
  \/ \E c \in Runs : TestDone(c)
  \/ \E c \in Runs : SaveOk(c)
  \/ \E c \in Runs : SaveThrew(c)
  \/ \E c \in Runs : UpdateNoticeDone(c)

\* ------------------------------------------- POST /webhook/support actions
Null == "null"


\* process.env.WEBHOOK_SECRET, and what a request may carry in its place
WEBHOOK_SECRET == "secret"

ProvidedSecrets == {WEBHOOK_SECRET, "guess", Null}

\* A body field as the handler sees it: a non-empty string, falsy or absent,
\* or a truthy value that is not a string (a number, an object, an array).
FieldValues == {"string", "missing", "nonstring"}
\* ---------------------------------------------------------------- tokenStorage
\* tokens.json as text. A refresh token is a string over three characters:
\* a letter, the double quote (q) and the backslash (b). The text on disk is
\* the JSON string literal of the refreshToken field from after its opening
\* quote: the escaped characters, then the closing quote. The other fields of
\* TokenData are not read back by loadRefreshToken.
Chars == {"a", "q", "b"}
MaxSecretLen == 2
MaxTextLen == 3

SeqsUpTo(S, n) == UNION { [1..k -> S] : k \in 0..n }
Secrets == SeqsUpTo(Chars, MaxSecretLen)
Texts == SeqsUpTo(Chars, MaxTextLen)

TextFile(text) == [ text |-> text ]

\* JSON.stringify of a string: quote and backslash are escaped
RECURSIVE JSONescape(_)
JSONescape(str) ==
  IF str = <<>> THEN <<>>
  ELSE (IF Head(str) \in {"q", "b"} THEN <<"b", Head(str)>> ELSE <<Head(str)>>)
       \o JSONescape(Tail(str))

JSONstringify(str) == JSONescape(str) \o <<"q">>

\* JSON.parse of the literal: a record with the string read, or a SyntaxError
\* when an escape is cut short or unknown, when text follows the closing
\* quote, or when the closing quote is missing
SyntaxError == [ threw |-> "SyntaxError", value |-> <<>> ]
ENOENT == [ threw |-> "ENOENT", value |-> <<>> ]
Parsed(str) == [ threw |-> "no", value |-> str ]

RECURSIVE JSONparse(_)
JSONparse(text) ==
  IF text = <<>> THEN SyntaxError
  ELSE IF Head(text) = "q"
       THEN (IF Tail(text) = <<>> THEN Parsed(<<>>) ELSE SyntaxError)
  ELSE IF Head(text) = "b"
       THEN (IF Len(text) >= 2 /\ text[2] \in {"q", "b"}
             THEN LET rest == JSONparse(Tail(Tail(text)))
                  IN IF rest.threw = "no" THEN Parsed(<<text[2]>> \o rest.value) ELSE rest
             ELSE SyntaxError)
  ELSE LET rest == JSONparse(Tail(text))
       IN IF rest.threw = "no" THEN Parsed(<<Head(text)>> \o rest.value) ELSE rest

\* the try block of loadRefreshToken: readFile, JSON.parse
ReadAndParse(file) ==
  IF file = NoFile THEN ENOENT ELSE JSONparse(file.text)

\* what loadRefreshToken gives its caller
NotLoaded == [ kind |-> "none", value |-> <<>> ]
Returned(str) == [ kind |-> "value", value |-> str ]
ReturnedNull == [ kind |-> "null", value |-> <<>> ]
Rejected(code) == [ kind |-> "threw", value |-> <<>> ]
NoSave == [ kind |-> "none", value |-> <<>> ]

\* Mutant: the catch returns null for ENOENT and rethrows everything else.
loadRefreshTokenText_Rethrows(file) ==
  LET r == ReadAndParse(file)
  IN IF r.threw = "ENOENT" THEN ReturnedNull
     ELSE IF r.threw # "no" THEN Rejected(r.threw)
     ELSE IF r.value = <<>> THEN ReturnedNull
     ELSE Returned(r.value)

\* loadRefreshToken over the text of tokens.json: `if (!tokenData.refreshToken)
\* return null`, `return tokenData.refreshToken`, and null from both branches
\* of the catch
loadRefreshTokenText(file) ==
  LET r == ReadAndParse(file)
  IN IF r.threw # "no" THEN ReturnedNull
     ELSE IF r.value = <<>> THEN ReturnedNull
     ELSE Returned(r.value)

\* loadRefreshToken()
LoadRefreshToken ==
  /\ lastLoad' = loadRefreshTokenText(tokenFile)
  /\ UNCHANGED lastSave
  /\ UNCHANGED oauthVars
  /\ UNCHANGED <<mailConfigured, globalGmailService, initializationPromise, gmailService,
                 hits, webhook, served, bootVars, initVars>>
  /\ UNCHANGED <<gmailVars, queueVars>>

\* saveRefreshToken(refreshToken) resolved: writeFile replaced the file
SaveRefreshToken(refreshToken) ==
  /\ tokenFile' = TextFile(JSONstringify(refreshToken))
  /\ lastSave' = Returned(refreshToken)
  /\ lastLoad' = NotLoaded
  /\ UNCHANGED <<credentials, cb, cbCount>>
  /\ UNCHANGED <<mailConfigured, globalGmailService, initializationPromise, gmailService,
                 hits, webhook, served, bootVars, initVars>>
  /\ UNCHANGED <<gmailVars, queueVars>>

\* saveRefreshToken(refreshToken) rejected: writeFile failed, leaving the old
\* file, no file, or the first characters of the new text
SaveRefreshTokenThrew(refreshToken) ==
  /\ \E n \in 0..Len(JSONescape(refreshToken)) :
       tokenFile' \in {tokenFile, TextFile(SubSeq(JSONstringify(refreshToken), 1, n))}
  /\ tokenFile' # tokenFile => (lastSave' = NoSave /\ lastLoad' = NotLoaded)
  /\ tokenFile' = tokenFile => UNCHANGED storageVars
  /\ UNCHANGED <<credentials, cb, cbCount>>
  /\ UNCHANGED <<mailConfigured, globalGmailService, initializationPromise, gmailService,
                 hits, webhook, served, bootVars, initVars>>
  /\ UNCHANGED <<gmailVars, queueVars>>

\* the operator removes tokens.json
RemoveTokenFile ==
  /\ tokenFile # NoFile
  /\ tokenFile' = NoFile
  /\ lastSave' = NoSave
  /\ lastLoad' = NotLoaded
  /\ UNCHANGED <<credentials, cb, cbCount>>
  /\ UNCHANGED <<mailConfigured, globalGmailService, initializationPromise, gmailService,
                 hits, webhook, served, bootVars, initVars>>
  /\ UNCHANGED <<gmailVars, queueVars>>



IdleReq ==
  [ pc |-> "idle", provided |-> Null, name |-> "missing", email |-> "missing",
    text |-> "missing", admitted |-> FALSE, attempt |-> 0, chat |-> "none",
    emailInvoked |-> FALSE, fallbackCalls |-> 0, status |-> 0 ]

\* process.env: settings says GOOGLE_CLIENT_ID, GOOGLE_CLIENT_SECRET and
\* GMAIL_SENDER_EMAIL are all set; GOOGLE_REFRESH_TOKEN is 0 when unset
EnvUnread == [ settings |-> FALSE, GOOGLE_REFRESH_TOKEN |-> 0, read |-> FALSE ]
Envs == [ settings : BOOLEAN, GOOGLE_REFRESH_TOKEN : {0, -2}, read : {TRUE} ]
\* the getGmailServiceAsync invocations in flight, and getter calls in a run
Getters == {"g1", "g2"}
MaxGets == 3
IdleGetter == [ pc |-> "idle", service |-> Null, instance |-> 0 ]

HookInit ==
  /\ mailConfigured = "unread"
  /\ globalGmailService = Null
  /\ initializationPromise = Null
  /\ gmailService = "unset"
  /\ hits = 0
  /\ webhook = [w \in Reqs |-> IdleReq]
  /\ served = 0
  /\ coreSecrets = "unread"
  /\ proc = "starting"
  /\ configRefreshToken = 0
  /\ autoRetry = FALSE
  /\ notConfiguredSent = FALSE
  /\ processEnv = EnvUnread
  /\ lastLoad = NotLoaded
  /\ lastSave = NoSave
  /\ initRuns = 0
  /\ instances = 0
  /\ monitors = 0
  /\ getter = [g \in Getters |-> IdleGetter]
  /\ gets = 0

\* tokens.json as an earlier life of the process, or the operator, left it:
\* it holds a refresh token (-1) that no callback run of this behaviour issued
Provisioned ==
  [ refreshToken |-> -1, account |-> requiredEmail, updatedBy |-> "manual" ]

\* the process is started with tokens.json in place
Provision ==
  /\ proc = "starting"
  /\ tokenFile = NoFile
  /\ tokenFile' = Provisioned
  /\ UNCHANGED <<credentials, cb, cbCount>>
  /\ UNCHANGED <<gmailVars, queueVars, hookVars>>

\* Mutant: the process goes on without its core secrets.
StartupCheck_Lenient(secrets) == "loaded"

\* index.ts: `if (!BOT_TOKEN || !CHAT_ID || !WEBHOOK_SECRET) process.exit(1)`
StartupCheck(secrets) ==
  IF secrets THEN "loaded" ELSE "exited"

\* Mutant: the initialisation is started whatever initializationPromise holds.
StartsInit_Always(promise) == TRUE

\* `if (!initializationPromise) initializeGmailService()`, and in it
\* `if (initializationPromise) return`
StartsInit(promise) == promise = Null

\* initializeGmailService up to the first await inside createGmailService
initializeGmailService(promise) ==
  IF promise # Null THEN promise ELSE "pending"

\* the lines getGmailService and getGmailServiceAsync share: a first call
\* starts the initialisation, which runs to the first await of
\* createGmailService, and initializationPromise holds its promise
GetterEntry ==
  /\ initRuns' = initRuns + Bit(StartsInit(initializationPromise))
  /\ initializationPromise' = initializeGmailService(initializationPromise)

\* index.ts runs `const gmailService = getGmailService()`: the initialisation
\* is started and the handle is whatever globalGmailService holds right now
ModuleLoad ==
  /\ proc = "starting"
  /\ gmailService = "unset"
  /\ \E secrets \in BOOLEAN :
       /\ coreSecrets' = IF secrets THEN "present" ELSE "absent"
       /\ proc' = StartupCheck(secrets)
  /\ IF proc' = "exited"
     THEN UNCHANGED <<initializationPromise, gmailService, initRuns>>
     ELSE /\ GetterEntry
          /\ gmailService' = globalGmailService
  /\ UNCHANGED <<instances, monitors, getter, gets>>
  /\ UNCHANGED <<mailConfigured, globalGmailService, hits, webhook, served>>
  /\ UNCHANGED <<configRefreshToken, autoRetry, notConfiguredSent, processEnv>>
  /\ UNCHANGED <<gmailVars, queueVars, oauthVars, storageVars>>

\* loadRefreshToken: the refreshToken of tokens.json, or null (written 0)
\* when the file or the field is missing
loadRefreshToken(file) == file.refreshToken

\* config.refreshToken: `refreshToken: refreshToken || ''`, 0 for ''
configOf(file, env) == loadRefreshToken(file)

\* createGmailService: `if (missingFields.length > 0) return null`, else the
\* new GmailService
createGmailService(file, env) ==
  IF configOf(file, env) # 0 /\ env.settings THEN "service" ELSE Null

\* createGmailService resolved: `globalGmailService = await createGmailService(...)`;
\* the service keeps the refresh token it was built with in its config
CreateGmailServiceDone ==
  /\ initRuns > 0
  /\ initRuns' = initRuns - 1
  /\ \E env \in Envs :
       LET service == createGmailService(tokenFile, env)
       IN /\ processEnv' = env
          /\ mailConfigured' = IF service # Null THEN "present" ELSE "absent"
          /\ globalGmailService' = service
          /\ configRefreshToken' = IF service # Null THEN configOf(tokenFile, env) ELSE 0
          /\ instances' = IF service # Null THEN instances + 1 ELSE instances
          /\ monitors' = IF service # Null THEN monitors + 1 ELSE monitors
  /\ UNCHANGED <<getter, gets>>
  /\ initializationPromise' = "resolved"
  /\ UNCHANGED <<gmailService, hits, webhook, served>>
  /\ UNCHANGED <<coreSecrets, proc, autoRetry, notConfiguredSent>>
  /\ UNCHANGED <<gmailVars, queueVars, oauthVars, storageVars>>

\* the app.listen callback: `if (gmailService) { startAutoRetry(gmailService, 30) }
\* else { sendGmailNotConfiguredNotification(baseUrl) }`
ListenCallback ==
  /\ proc = "loaded"
  /\ proc' = "listening"
  /\ autoRetry' = (gmailService # Null)
  /\ notConfiguredSent' = (gmailService = Null)
  /\ UNCHANGED <<coreSecrets, configRefreshToken, processEnv>>
  /\ UNCHANGED <<mailConfigured, globalGmailService, initializationPromise, gmailService,
                 hits, webhook, served>>
  /\ UNCHANGED <<gmailVars, queueVars, oauthVars, storageVars, initVars>>

\* a later getGmailService(): the same first lines, `return globalGmailService`
GetGmailService ==
  /\ proc \in {"loaded", "listening"}
  /\ gets < MaxGets
  /\ gets' = gets + 1
  /\ GetterEntry
  /\ UNCHANGED <<instances, monitors, getter>>
  /\ UNCHANGED <<mailConfigured, globalGmailService, gmailService, hits, webhook, served>>
  /\ UNCHANGED <<bootVars, storageVars>>
  /\ UNCHANGED <<gmailVars, queueVars, oauthVars>>

\* getGmailServiceAsync() up to `await initializationPromise`
CallGetGmailServiceAsync(g) ==
  /\ proc \in {"loaded", "listening"}
  /\ getter[g].pc = "idle"
  /\ gets < MaxGets
  /\ gets' = gets + 1
  /\ GetterEntry
  /\ getter' = [getter EXCEPT ![g].pc = "awaiting"]
  /\ UNCHANGED <<instances, monitors>>
  /\ UNCHANGED <<mailConfigured, globalGmailService, gmailService, hits, webhook, served>>
  /\ UNCHANGED <<bootVars, storageVars>>
  /\ UNCHANGED <<gmailVars, queueVars, oauthVars>>

\* getGmailServiceAsync: the promise it awaits has resolved, to what
\* globalGmailService held at the end of the initialisation
GetterResolves(g) ==
  /\ getter[g].pc = "awaiting"
  /\ initializationPromise = "resolved"
  /\ getter' = [getter EXCEPT ![g] = [ pc |-> "done", service |-> globalGmailService,
                                       instance |-> instances ]]
  /\ UNCHANGED <<initRuns, instances, monitors, gets>>
  /\ UNCHANGED <<mailConfigured, globalGmailService, initializationPromise, gmailService,
                 hits, webhook, served>>
  /\ UNCHANGED <<bootVars, storageVars>>
  /\ UNCHANGED <<gmailVars, queueVars, oauthVars>>

authenticateWebhook(provided) == provided = WEBHOOK_SECRET

\* res.status(code).json(...)
Respond(req, code) == [req EXCEPT !.pc = "done", !.status = code]

\* `if (gmailService) { ... sendConfirmationEmail ... }`, else the 200
EmailBranch(req, handle) ==
  IF handle # Null
  THEN [req EXCEPT !.pc = "h_email", !.emailInvoked = TRUE]
  ELSE Respond(req, 200)

\* the handler after `await import('./localization')`: the 400 check, then the
\* chat message is built (escapeMarkdown calls text.replace, which a value
\* that is not a string does not have: TypeError, outer catch, 500)
AfterImport(req) ==
  IF "missing" \in {req.name, req.email, req.text}
  THEN Respond(req, 400)
  ELSE IF "nonstring" \in {req.name, req.email, req.text}
       THEN Respond(req, 500)
       ELSE [req EXCEPT !.pc = "h_chat", !.attempt = 1]

\* What the call a request waits on can come back with.
AwaitOutcomes(req) ==
  CASE req.pc = "h_import"    -> {"loaded"}
    [] req.pc = "h_chat"      -> {"sent_with_id", "sent_without_id", "retryable", "fatal"}
    [] req.pc = "h_chat_wait" -> {"timer"}
    [] req.pc = "h_edit"      -> {"edited", "threw"}
    [] req.pc = "h_email"     -> {"sent", "failed", "threw"}
    [] req.pc = "h_fallback"  -> {"returned"}
    [] OTHER                  -> {}

\* The handler from the await it was suspended at to the next one, or to its
\* response.
WebhookResume(req, outcome, handle) ==
  CASE req.pc = "h_import" -> AfterImport(req)
    [] req.pc = "h_chat" ->
         CASE outcome = "sent_with_id"    -> [req EXCEPT !.pc = "h_edit", !.chat = "sent"]
           [] outcome = "sent_without_id" -> EmailBranch([req EXCEPT !.chat = "sent"], handle)
           [] outcome = "retryable" /\ req.attempt < ChatMaxRetries
                                          -> [req EXCEPT !.pc = "h_chat_wait"]
           [] OTHER                       -> EmailBranch([req EXCEPT !.chat = "threw"], handle)
    [] req.pc = "h_chat_wait" -> [req EXCEPT !.pc = "h_chat", !.attempt = @ + 1]
    [] req.pc = "h_edit" ->
         IF outcome = "edited"
         THEN EmailBranch(req, handle)
         ELSE EmailBranch([req EXCEPT !.chat = "threw"], handle)
    [] req.pc = "h_email" ->
         IF outcome = "sent"
         THEN Respond(req, 200)
         ELSE [req EXCEPT !.pc = "h_fallback", !.fallbackCalls = @ + 1]
    [] req.pc = "h_fallback" -> Respond(req, 200)
    [] OTHER -> req

\* a request arrives: supportRateLimit, then the handler up to its first await
WebhookArrives(w) ==
  /\ proc = "listening"
  /\ webhook[w].pc \in {"idle", "done"}
  /\ served < MaxRequests
  /\ served' = served + 1
  /\ \E provided \in ProvidedSecrets, name \in FieldValues, email \in FieldValues,
        text \in FieldValues :
       LET req == [IdleReq EXCEPT !.provided = provided, !.name = name,
                                  !.email = email, !.text = text]
       IN IF hits >= RateLimitMax
          THEN /\ webhook' = [webhook EXCEPT ![w] = Respond(req, 429)]
               /\ UNCHANGED hits
          ELSE /\ hits' = hits + 1
               /\ webhook' = [webhook EXCEPT ![w] =
                    IF ~authenticateWebhook(provided)
                    THEN Respond([req EXCEPT !.admitted = TRUE], 401)
                    ELSE [req EXCEPT !.admitted = TRUE, !.pc = "h_import"]]
  /\ UNCHANGED <<mailConfigured, globalGmailService, initializationPromise, gmailService>>
  /\ UNCHANGED bootVars
  /\ UNCHANGED <<gmailVars, queueVars, oauthVars, storageVars, initVars>>

\* the call the request waits on settles
WebhookSettle(w) ==
  /\ \E outcome \in AwaitOutcomes(webhook[w]) :
       webhook' = [webhook EXCEPT ![w] = WebhookResume(webhook[w], outcome, gmailService)]
  /\ UNCHANGED <<mailConfigured, globalGmailService, initializationPromise, gmailService,
                 hits, served>>
  /\ UNCHANGED bootVars
  /\ UNCHANGED <<gmailVars, queueVars, oauthVars, storageVars, initVars>>

\* supportRateLimit: the ten-minute window is over
WindowReset ==
  /\ hits > 0
  /\ hits' = 0
  /\ UNCHANGED <<mailConfigured, globalGmailService, initializationPromise, gmailService,
                 webhook, served>>
  /\ UNCHANGED bootVars
  /\ UNCHANGED <<gmailVars, queueVars, oauthVars, storageVars, initVars>>

HookStep ==
  \/ Provision
  \/ ModuleLoad
  \/ CreateGmailServiceDone
  \/ ListenCallback
  \/ \E w \in Reqs : WebhookArrives(w)
  \/ \E w \in Reqs : WebhookSettle(w)
  \/ WindowReset

\* ------------------------------------------------------------ specifications
vars == <<gmailVars, queueVars, oauthVars, hookVars>>

Init == GmailInit /\ QueueInit /\ OAuthInit /\ HookInit

\* GmailService, one invocation at a time.
Next ==
  \/ GmailStep("t1", MaxCalls, RetryChoices)
  \/ Advance

Spec == Init /\ [][Next]_vars

\* GmailService, invocations interleaved at their awaits: t1 is any
\* invocation, t2 one whose sendEmail is given a single attempt.
NextConc ==
  \/ GmailStep("t1", MaxConcCalls, RetryChoices)
  \/ GmailStep("t2", MaxConcCalls, {1})
  \/ Advance

SpecConc == Init /\ [][NextConc]_vars

\* GmailService with sendConfirmationEmail among its callers' entry points,
\* one invocation at a time.
NextSend ==
  \/ GmailStep("t1", MaxCalls, RetryChoices)
  \/ ConfirmationStep("t1", MaxCalls)
  \/ Advance

SpecSend == Init /\ [][NextSend]_vars

\* EmailFallbackService: enqueues, drains and clears interleaved at their awaits.
SpecQueue == Init /\ [][QueueStep]_vars

\* /oauth/callback: runs interleaved at their awaits, sharing one OAuth2Setup.
SpecOAuth == Init /\ [][OAuthStep]_vars

\* Module start-up and POST /webhook/support requests.
SpecHook == Init /\ [][HookStep]_vars

\* The whole process, one operation at a time: it boots, then callback
\* runs, calls on the GmailService built at boot, enqueues, drain passes,
\* clears and webhook requests that carry the secret follow one another.
Quiet ==
  /\ \A t \in Tasks : task[t].pc = "idle"
  /\ \A d \in Drains : drain[d].pc = "idle"
  /\ \A e \in Enqs : enq[e].pc = "idle"
  /\ \A c \in Runs : cb[c].pc \in {"idle", "done"}
  /\ \A w \in Reqs : webhook[w].pc \in {"idle", "done"}

Arrival ==
  /\ proc = "listening"
  /\ Quiet
  /\ \/ CallbackArrives("c1") /\ cbCount < MaxOps
     \/ /\ globalGmailService = "service"
        /\ \/ CallValidateToken("t1", MaxOps)
           \/ CallSendEmail("t1", MaxOps, {1})
           \/ CallRefreshToken("t1", MaxOps)
     \/ CallHandleFailedEmail("e1") /\ nextId <= MaxOps
     \/ CallRetryFailedEmails("d1") /\ failedEmails # <<>>
     \/ ClearFailedEmails
     \/ /\ WebhookArrives("w1")
        /\ served < MaxOps
        /\ webhook'["w1"].provided = WEBHOOK_SECRET

NextSystem ==
  \/ Provision
  \/ ModuleLoad
  \/ CreateGmailServiceDone
  \/ ListenCallback
  \/ Arrival
  \/ ExchangeOk("c1")
  \/ ExchangeNoRefresh("c1")
  \/ ExchangeThrew("c1")
  \/ UserinfoOk("c1")
  \/ UserinfoThrew("c1")
  \/ TestDone("c1")
  \/ SaveOk("c1")
  \/ SaveThrew("c1")
  \/ UpdateNoticeDone("c1")
  \/ SendTokenOk("t1")
  \/ SendTokenError("t1")
  \/ SendOk("t1")
  \/ SendError("t1")
  \/ NotifyDone("t1")
  \/ RefreshOk("t1")
  \/ RefreshError("t1")
  \/ Return("t1")
  \/ FailedNoticeDone("e1")
  \/ ReAuthNoticeDone("e1")
  \/ ResendOk("d1")
  \/ ResendFailed("d1")
  \/ ResendThrew("d1")
  \/ PauseDone("d1")
  \/ SummaryDone("d1")
  \/ DrainReturn("d1")
  \/ WebhookSettle("w1")

SpecSystem == Init /\ [][NextSystem]_vars

\* tokenStorage alone: tokens.json starts missing or holding any text, and
\* the process saves, loads, and the operator removes the file.
InitStorage ==
  /\ GmailInit
  /\ QueueInit
  /\ HookInit
  /\ credentials = NoTokens
  /\ cb = [c \in Runs |-> IdleRun]
  /\ cbCount = 0
  /\ tokenFile \in {NoFile} \cup { TextFile(text) : text \in Texts }

NextStorage ==
  \/ LoadRefreshToken
  \/ \E refreshToken \in Secrets : SaveRefreshToken(refreshToken)
  \/ \E refreshToken \in Secrets : SaveRefreshTokenThrew(refreshToken)
  \/ RemoveTokenFile

SpecStorage == InitStorage /\ [][NextStorage]_vars

\* The getters of emailService: the call of index.ts at load, later calls of
\* getGmailService and getGmailServiceAsync, and the initialisation they share.
NextInit ==
  \/ Provision
  \/ ModuleLoad
  \/ CreateGmailServiceDone
  \/ ListenCallback
  \/ GetGmailService
  \/ \E g \in Getters : CallGetGmailServiceAsync(g)
  \/ \E g \in Getters : GetterResolves(g)

SpecInit == Init /\ [][NextInit]_vars

\* The token monitor on a GmailService in use: t1 is the refreshToken of the
\* monitor, t2 the invocations of other callers; a call to the provider can
\* fail until the provider has recovered.
MonitorStep ==
  \/ MonitorTick("t1")
  \/ MonitorRefreshed("t1")
  \/ TestConnectionDone
  \/ RefreshOk("t1")
  \/ RefreshError("t1") /\ ~providerOk
  \/ ProbeTokenOk("t1")
  \/ ProbeTokenError("t1") /\ ~providerOk
  \/ ProbeProfileOk("t1")
  \/ ProbeProfileError("t1") /\ ~providerOk
  \/ NotifyDone("t1")

CallerStep ==
  \/ CallValidateToken("t2", MaxConcCalls)
  \/ CallSendEmail("t2", MaxConcCalls, {1})
  \/ ProbeTokenOk("t2")
  \/ ProbeTokenError("t2") /\ ~providerOk
  \/ ProbeProfileOk("t2")
  \/ ProbeProfileError("t2") /\ ~providerOk
  \/ SendTokenOk("t2")
  \/ SendTokenError("t2") /\ ~providerOk
  \/ SendOk("t2")
  \/ SendError("t2") /\ ~providerOk
  \/ NotifyDone("t2")
  \/ Return("t2")

NextMonitor ==
  \/ MonitorStep
  \/ CallerStep
  \/ ProviderRecovers

\* the interval keeps firing and what the callback awaits settles
SpecMonitor == Init /\ [][NextMonitor]_vars /\ WF_vars(MonitorStep)

\* ===================================================================== claims
\* C1: an auth-class error on attempt k of sendEmail ends the invocation: it is
\* the last attempt (exactly k attempts, k <= maxRetries), only the k-1 waits
\* that preceded it were taken, no backoff wait is pending, and the outcome is
\* Failed with requiresReAuth = true.
C1_AuthErrorStopsRetries ==
  \A t \in Tasks :
    \A k \in 1..Len(task[t].outs) :
      task[t].outs[k] = "auth" =>
        /\ Len(task[t].outs) = k
        /\ k <= task[t].maxRetries
        /\ Len(task[t].waits) = k - 1
        /\ task[t].pc \in {"s_notify", "done"}
        /\ task[t].pc = "done" => task[t].ret = "failed" /\ task[t].requiresReAuth

\* an auth-class error on attempt 1 of 3 ended the invocation after 1 attempt
C1_Witness ==
  \E t \in Tasks :
    /\ task[t].maxRetries = 3
    /\ task[t].outs = <<"auth">>
    /\ task[t].pc = "done"
    /\ task[t].ret = "failed"
    /\ task[t].requiresReAuth

\* C2: with maxRetries = 3 and the token guard live, a sendEmail whose every
\* attempt failed with a transient-class error made exactly 3 attempts, waited
\* 1 s and then 2 s (2^(k-1) s before attempt k+1, not resuming before the
\* timer), waited no more after the last attempt and returned Failed.
C2_TransientBackoff ==
  \A t \in Tasks :
    ( /\ task[t].op = "sendEmail"
      /\ task[t].maxRetries = 3
      /\ task[t].vres = "true"
      /\ \A i \in 1..Len(task[t].outs) : task[t].outs[i] = "transient" )
    =>
      /\ Len(task[t].outs) <= 3
      /\ \A i \in 1..Len(task[t].waits) : task[t].waits[i] = 2 ^ (i - 1)
      /\ task[t].pc = "s_wait" =>
           /\ Len(task[t].waits) = Len(task[t].outs)
           /\ Len(task[t].outs) < 3
           /\ task[t].wake >= task[t].waits[Len(task[t].waits)]
      /\ task[t].pc \in {"s_token", "s_send"} =>
           /\ Len(task[t].waits) = Len(task[t].outs)
           /\ task[t].attempt = Len(task[t].outs) + 1
           /\ now >= task[t].wake
      /\ task[t].pc = "done" =>
           /\ Len(task[t].outs) = 3
           /\ task[t].waits = <<1, 2>>
           /\ task[t].ret = "failed"
      /\ task[t].pc \in {"s_wait", "s_token", "s_send", "done"}

\* three transient failures out of three attempts, waits of 1 s and 2 s
C2_Witness ==
  \E t \in Tasks :
    /\ task[t].maxRetries = 3
    /\ task[t].outs = <<"transient", "transient", "transient">>
    /\ task[t].waits = <<1, 2>>
    /\ task[t].pc = "done"
    /\ task[t].ret = "failed"
    /\ now >= 3

\* C3: transient failures on attempts 1..k-1 and a success on attempt k give
\* Sent after exactly k attempts (k <= maxRetries) and exactly k-1 waits.
C3_SentAfterTransients ==
  \A t \in Tasks :
    \A k \in 1..Len(task[t].outs) :
      task[t].outs[k] = "ok" =>
        /\ \A i \in 1..(k - 1) : task[t].outs[i] = "transient"
        /\ Len(task[t].outs) = k
        /\ k <= task[t].maxRetries
        /\ Len(task[t].waits) = k - 1
        /\ \A i \in 1..(k - 1) : task[t].waits[i] = 2 ^ (i - 1)
        /\ task[t].pc = "done"
        /\ task[t].ret = "sent"

\* two transient failures, then Sent on attempt 3 with 2 waits
C3_Witness ==
  \E t \in Tasks :
    /\ task[t].outs = <<"transient", "transient", "ok">>
    /\ Len(task[t].waits) = 2
    /\ task[t].ret = "sent"

\* C4: when validateToken returned false at the start of sendEmail, sendEmail
\* has returned Failed with requiresReAuth = true in that same step, with no
\* attempt, no provider send call and no backoff wait; before validateToken
\* has returned true no attempt is made at all.
C4_NotLiveNoNetwork ==
  \A t \in Tasks :
    task[t].op = "sendEmail" =>
      /\ task[t].vres # "true" =>
           /\ task[t].sendCalls = 0
           /\ task[t].outs = <<>>
           /\ task[t].waits = <<>>
           /\ task[t].attempt = 0
      /\ task[t].vres = "false" =>
           /\ task[t].pc = "done"
           /\ task[t].ret = "failed"
           /\ task[t].requiresReAuth

\* a sendEmail that ended on validateToken's false
C4_Witness ==
  \E t \in Tasks :
    /\ task[t].op = "sendEmail"
    /\ task[t].vres = "false"
    /\ task[t].pc = "done"
    /\ task[t].sendCalls = 0

C6_OneNotificationPerEpisode ==
  obs.epFails >= 1 => obs.epNotifs = 1

\* C7 (as claimed): every step that sets isTokenValid back to true (a
\* successful probe in validateToken, a successful send, a successful refresh)
\* leaves notificationSent cleared, and no other step clears it.
C7_ClearedExactlyOnRecovery ==
  [][ /\ events' \cap {"probe_ok", "send_ok", "refresh_ok"} # {} => ~notificationSent'
      /\ ~isTokenValid /\ isTokenValid' => ~notificationSent'
      /\ notificationSent /\ ~notificationSent' =>
           events' \cap {"probe_ok", "send_ok", "refresh_ok"} # {} ]_vars

\* C8: lastTokenCheck changes only in a step in which a validateToken probe
\* succeeded, and then to the current time; a cache hit, a failed probe, a
\* send (successful or not) and handleAuthError leave it unchanged.
C8_LastCheckOnlyOnProbe ==
  [][ /\ lastTokenCheck' # lastTokenCheck => "probe_ok" \in events'
      /\ "probe_ok" \in events' => lastTokenCheck' = now
      /\ events' \cap {"cache_hit", "probe_fail", "send_ok", "send_fail", "hook", "callback"} # {}
           /\ "probe_ok" \notin events'
           => lastTokenCheck' = lastTokenCheck ]_vars

\* a successful probe moved lastTokenCheck to the current time
C8_Witness ==
  /\ "probe_ok" \in events
  /\ lastTokenCheck = now
  /\ now >= GraceWindow

\* C9: a step in which a validateToken probe failed leaves the invocation
\* returning false (at once, or once the notification it awaits settles);
\* it clears isTokenValid and calls handleAuthError exactly when the error is
\* auth-class, and for any other error it leaves isTokenValid, lastTokenCheck
\* and notificationSent unchanged and starts no notification.
C9_FailedProbe ==
  [][ /\ "probe_fail" \in events' =>
           /\ \A t \in Tasks : task'[t] # task[t] =>
                \/ task'[t].pc = "v_notify" /\ task'[t].vres = "none"
                \/ task'[t].vres = "false"
           /\ "auth" \in events' <=> "hook" \in events'
           /\ "auth" \in events' => ~isTokenValid'
           /\ "auth" \notin events' =>
                /\ UNCHANGED <<isTokenValid, lastTokenCheck, notificationSent>>
                /\ "notify" \notin events'
      /\ \A t \in Tasks : task[t].pc = "v_notify" /\ task'[t] # task[t] =>
           task'[t].vres = "false" ]_vars

\* a probe failed with an auth-class error: liveness cleared, hook called
C9_Witness ==
  /\ {"probe_fail", "auth", "hook", "notify"} \subseteq events
  /\ ~isTokenValid
  /\ notificationSent
  /\ \E t \in Tasks : task[t].pc = "v_notify"

\* C10 (as claimed): a retryFailedEmails call that started on K entries, ran
\* with no enqueue, clear or other drain beside it and had every resend
\* succeed has left the queue empty and reported success = K, failed = 0 in
\* its summary.
C10_DrainConverges ==
  \A d \in Drains :
    ( drain[d].pc = "done" /\ ~drain[d].disturbed /\ drain[d].added = {}
      /\ drain[d].failed = 0 )
    =>
      /\ failedEmails = <<>>
      /\ drain[d].summary = [sent |-> TRUE, success |-> Len(drain[d].snapshot), failed |-> 0]

\* C10 (amended): the same for K >= 1; on an empty queue (K = 0)
\* retryFailedEmails returns at once and issues no summary.
C10_DrainConvergesNonEmpty ==
  \A d \in Drains :
    ( drain[d].pc = "done" /\ ~drain[d].disturbed /\ drain[d].added = {}
      /\ drain[d].failed = 0 )
    =>
      /\ failedEmails = <<>>
      /\ Len(drain[d].snapshot) >= 1 =>
           /\ drain[d].summary = [sent |-> TRUE, success |-> Len(drain[d].snapshot), failed |-> 0]
           /\ Len(drain[d].tried) = Len(drain[d].snapshot)
      /\ Len(drain[d].snapshot) = 0 => ~drain[d].summary.sent

\* a drain of two entries, both resent, alone: queue empty, summary {2, 0}
C10_Witness ==
  \E d \in Drains :
    /\ drain[d].pc = "done"
    /\ ~drain[d].disturbed
    /\ drain[d].added = {}
    /\ Len(drain[d].snapshot) = 2
    /\ drain[d].summary = [sent |-> TRUE, success |-> 2, failed |-> 0]
    /\ failedEmails = <<>>

\* Identities of the entry objects in a list.
Ids(list) == {list[k].id : k \in 1..Len(list)}

\* C11: every entry pushed by handleFailedEmail while a retryFailedEmails pass
\* was suspended is not part of that pass's snapshot, and is still in the live
\* queue when the pass finishes (no clearFailedEmails and no other pass having
\* run beside it): the pass removes nothing but what it resent.
C11_AppendedDuringDrainKept ==
  \A d \in Drains :
    /\ drain[d].added \cap Ids(drain[d].snapshot) = {}
    /\ (drain[d].pc \in {"d_notify", "done"} /\ ~drain[d].disturbed) =>
         /\ drain[d].added \subseteq Ids(failedEmails)
         /\ Ids(drain[d].snapshot) \ Ids(failedEmails) \subseteq qobs.resent

\* a pass that resent its whole snapshot is at its summary, and the entry
\* pushed while it was suspended is in the queue, never resent
C11_Witness ==
  \E d \in Drains :
    /\ drain[d].pc = "d_notify"
    /\ ~drain[d].disturbed
    /\ drain[d].success = Len(drain[d].snapshot)
    /\ drain[d].added # {}
    /\ drain[d].added \subseteq Ids(failedEmails)
    /\ drain[d].added \cap qobs.resent = {}

\* C12 (as claimed): an entry that has left the queue was resent with
\* success = true before; no operation removes an entry never resent.
C12_RemovedOnlyAfterResend ==
  \A id \in 1..(nextId - 1) :
    id \notin Ids(failedEmails) => id \in qobs.resent

\* C12 (amended): a step that takes entries out of the queue is either a
\* retryFailedEmails step taking out the one entry whose resend just returned
\* success = true, or clearFailedEmails (no invocation moves) emptying the
\* queue; handleFailedEmail and retryFailedEmails never remove an entry that
\* was not resent.
C12_RemovedByResendOrClear ==
  [][ LET gone == Ids(failedEmails) \ Ids(failedEmails')
      IN gone # {} =>
           \/ /\ Cardinality(gone) = 1
              /\ gone \subseteq qobs'.resent
              /\ \E d \in Drains :
                   /\ drain[d].pc = "d_send"
                   /\ drain'[d].success = drain[d].success + 1
                   /\ gone = {drain[d].snapshot[drain[d].i].id}
           \/ /\ failedEmails' = <<>>
              /\ enq' = enq
              /\ \A d \in Drains : drain'[d].pc = drain[d].pc
    ]_vars

\* a resend failed and another succeeded: the failed entry stays, the resent
\* one is gone
C12_Witness ==
  \E d \in Drains :
    /\ drain[d].pc = "done"
    /\ ~drain[d].disturbed
    /\ drain[d].failed >= 1
    /\ drain[d].success >= 1
    /\ Len(failedEmails) = drain[d].failed

\* C13: the step that enters handleFailedEmail appends exactly one entry to
\* failedEmails, whatever the outcome passed in; no later step of the
\* invocation changes failedEmails, and the invocation never ends by throwing,
\* whether or not the failure notice reached the chat.
C13_EnqueueAlwaysAppends ==
  [][ \A e \in Enqs :
        /\ (enq[e].pc = "idle" /\ enq'[e].pc # "idle") =>
             /\ Len(failedEmails') = Len(failedEmails) + 1
             /\ SubSeq(failedEmails', 1, Len(failedEmails)) = failedEmails
             /\ failedEmails'[Len(failedEmails')].id = nextId
        /\ (enq[e].pc # "idle" /\ enq'[e] # enq[e]) =>
             /\ failedEmails' = failedEmails
             /\ ~enq'[e].threw
    ]_vars

\* handleFailedEmail has gone on past a failure notice that did not reach the
\* chat, and the entry it pushed is the last of the queue
C13_Witness ==
  \E e \in Enqs :
    /\ enq[e].pc = "e_reauth"
    /\ ~enq[e].noticeOk
    /\ ~enq[e].threw
    /\ failedEmails # <<>>
    /\ failedEmails[Len(failedEmails)].id = nextId - 1

\* C14: between two successful sends, the handleFailedEmail calls given an
\* outcome with requiresReAuth fire at most one "re-authorization required"
\* broadcast: none is fired while one is standing.
C14_OneReAuthBroadcastPerEpisode ==
  [][ \A e \in Enqs :
        (enq[e].pc # "e_reauth" /\ enq'[e].pc = "e_reauth") => ~qobs.reAuthBroadcast
    ]_vars

\* C15: a callback run whose authorized identity is not the allow-listed
\* address ends in RejectedWrongAccount on the wrong-account page, has not
\* called saveRefreshToken and has sent no token-update notice; the step that
\* rejects it leaves tokens.json as it was, and tokens.json never holds a
\* refresh token granted by another account.
C15_WrongAccountNeverPersisted ==
  [][ /\ \A c \in Runs :
           cb'[c].email \notin {"none", requiredEmail} =>
             /\ cb'[c].pc = "done"
             /\ cb'[c].terminal = "RejectedWrongAccount"
             /\ cb'[c].page = "wrong"
             /\ cb'[c].save = "none"
             /\ cb'[c].notify = "none"
             /\ (cb[c].terminal # "RejectedWrongAccount" => tokenFile' = tokenFile)
      /\ tokenFile' # NoFile => tokenFile'.account = requiredEmail
    ]_vars

\* a run was rejected for the wrong account while tokens.json holds what an
\* earlier accepted run wrote
C15_Witness ==
  \E c \in Runs :
    /\ cb[c].terminal = "RejectedWrongAccount"
    /\ cb[c].email = "someone@gmail.com"
    /\ tokenFile # NoFile
    /\ tokenFile.refreshToken # cb[c].serial

\* C16: a callback run whose code exchange returned no refresh_token, or
\* threw, is over in Failed on the error page: the identity was not fetched,
\* saveRefreshToken was not called and no notice was sent.
C16_FailedExchangeStops ==
  \A c \in Runs :
    cb[c].exchange \in {"no_refresh", "threw"} =>
      /\ cb[c].pc = "done"
      /\ cb[c].terminal = "Failed"
      /\ cb[c].page = "error"
      /\ ~cb[c].validated
      /\ cb[c].email = "none"
      /\ cb[c].save = "none"
      /\ cb[c].notify = "none"

\* an exchange without refresh_token has failed its run, tokens.json untouched
C16_Witness ==
  \E c \in Runs :
    /\ cb[c].exchange = "no_refresh"
    /\ cb[c].terminal = "Failed"
    /\ tokenFile = NoFile

\* C17: the identity a callback run compares with the allow-listed address is
\* the identity of the credentials that same run exchanged, however the runs
\* interleave on the shared OAuth2 client.
C17_IdentityOfOwnCredentials ==
  \A c \in Runs :
    /\ cb[c].validated => cb[c].auth = cb[c].tokens
    /\ cb[c].email # "none" => cb[c].email = cb[c].tokens.account

\* a run was rejected on its own identity although the shared client held the
\* allow-listed credentials of another run, set while the first one waited
C17_Witness ==
  \E c, o \in Runs :
    /\ c # o
    /\ cb[c].terminal = "RejectedWrongAccount"
    /\ cb[c].email = "someone@gmail.com"
    /\ cb[o].pc = "x_userinfo"
    /\ cb[o].serial > cb[c].serial
    /\ credentials = cb[o].tokens
    /\ cb[o].tokens.account = requiredEmail

\* C18: the token-update notice is sent only after saveRefreshToken resolved;
\* a run whose save threw is over in Failed on the error page with no notice;
\* once the notice has settled, sent or not, the run is Accepted on the
\* success page.
C18_PersistBeforeNotify ==
  \A c \in Runs :
    /\ cb[c].notify # "none" =>
         /\ cb[c].save = "ok"
         /\ tokenFile # NoFile
    /\ cb[c].save = "threw" =>
         /\ cb[c].pc = "done"
         /\ cb[c].terminal = "Failed"
         /\ cb[c].page = "error"
         /\ cb[c].notify = "none"
    /\ cb[c].notify \in {"ok", "failed"} =>
         /\ cb[c].pc = "done"
         /\ cb[c].terminal = "Accepted"
         /\ cb[c].page = "success"
    /\ cb[c].terminal = "Accepted" =>
         /\ cb[c].save = "ok"
         /\ cb[c].notify \in {"ok", "failed"}

\* the notice failed and the run is Accepted, its token in tokens.json
C18_Witness ==
  \E c \in Runs :
    /\ cb[c].notify = "failed"
    /\ cb[c].terminal = "Accepted"
    /\ tokenFile.refreshToken = cb[c].serial

\* C19: with the mail credentials there at boot (createGmailService built
\* the service), a webhook request with the right secret and all fields,
\* answered 200, had sendConfirmationEmail invoked for it.
C19_ConfirmationEmailInvoked ==
  \A w \in Reqs :
    ( /\ mailConfigured = "present"
      /\ globalGmailService = "service"
      /\ webhook[w].pc = "done"
      /\ webhook[w].status = 200 )
    => webhook[w].emailInvoked

\* C20: a webhook request the rate limiter let through is answered 401 when
\* its secret is wrong or missing, else 400 when name, email or text is
\* missing, else 200, whatever became of the chat message and the e-mail.
C20_ResponseByIntakeOnly ==
  \A w \in Reqs :
    ( webhook[w].pc = "done" /\ webhook[w].admitted )
    => webhook[w].status =
         IF webhook[w].provided # WEBHOOK_SECRET THEN 401
         ELSE IF "missing" \in {webhook[w].name, webhook[w].email, webhook[w].text} THEN 400
         ELSE 200

\* C21 (as claimed): the step in which validateToken or sendEmail starts the
\* operator notification is the step in which that call returns its result:
\* the caller never waits for notifyAuthError to settle.
C21_EscalationFireAndForget ==
  [][ \A t \in Tasks :
        ( /\ "notify" \in events'
          /\ task'[t] # task[t]
          /\ task'[t].op \in {"validateToken", "sendEmail"} )
        => task'[t].pc = "done"
    ]_vars

\* C22 (as claimed): every finished invocation of validateToken, refreshToken,
\* sendEmail or sendConfirmationEmail has resolved to a structured result, a
\* boolean or a Sent/Failed outcome; none has rejected.
C22_NeverRaises ==
  \A t \in Tasks :
    task[t].pc = "done" => task[t].ret \in {"true", "false", "sent", "failed"}

\* C23 (as claimed): a step of sendEmail in which a transient-class error was
\* caught, in the liveness probe or in an attempt, leaves the outcome without
\* requiresReAuth, leaves isTokenValid as it was and calls no escalation hook.
C23_TransientNotAuthRelated ==
  [][ \A t \in Tasks :
        LET inProbe == {"probe_fail", "transient"} \subseteq events'
            inSend == /\ "send_fail" \in events'
                      /\ task'[t].outs # <<>>
                      /\ task'[t].outs[Len(task'[t].outs)] = "transient"
        IN ( task'[t] # task[t] /\ task'[t].op = "sendEmail" /\ (inProbe \/ inSend) )
           => /\ ~task'[t].requiresReAuth
              /\ isTokenValid' = isTokenValid
              /\ "hook" \notin events'
    ]_vars

\* C24: the step in which a send succeeds leaves notificationSent false and
\* isTokenValid true; notificationSent is set again only by a step that caught
\* an auth-class failure and started a notification; and a step that catches
\* an auth-class failure while notificationSent is false starts one. So the
\* first auth-class failure after a successful send is notified.
C24_SendSuccessRearms ==
  [][ /\ "send_ok" \in events' => ~notificationSent' /\ isTokenValid'
      /\ (~notificationSent /\ notificationSent') => {"auth_fail", "notify"} \subseteq events'
      /\ ("auth_fail" \in events' /\ ~notificationSent) =>
           /\ "notify" \in events'
           /\ notificationSent'
    ]_vars

\* one invocation has returned Sent, and the auth-class failure another one
\* caught in the last step has started a notification
C24_Witness ==
  \E t, u \in Tasks :
    /\ t # u
    /\ task[u].pc = "done"
    /\ task[u].ret = "sent"
    /\ task[t].pc = "s_notify"
    /\ {"auth_fail", "notify"} \subseteq events
    /\ notificationSent

\* C25: within one sendEmail invocation the attempts run one after another.
\* While attempt N is at its token fetch or provider call, attempts 1..N-1
\* have all resolved, each was followed by its backoff wait and the last wait
\* has elapsed; while the invocation waits, no attempt is in flight; at most
\* one provider call has been started per attempt, and never more than
\* maxRetries attempts or provider calls are made.
C25_AttemptsSequential ==
  \A t \in Tasks :
    task[t].op = "sendEmail" =>
      /\ task[t].attempt <= task[t].maxRetries
      /\ task[t].sendCalls <= task[t].attempt
      /\ Len(task[t].outs) <= task[t].attempt
      /\ task[t].pc \in {"s_token", "s_send"} =>
           /\ task[t].attempt = Len(task[t].outs) + 1
           /\ Len(task[t].waits) = task[t].attempt - 1
           /\ now >= task[t].wake
           /\ task[t].sendCalls <= task[t].attempt - Bit(task[t].pc = "s_token")
      /\ task[t].pc \in {"s_wait", "s_notify", "done"} =>
           Len(task[t].outs) = task[t].attempt

\* the third attempt's provider call is in flight, the first two resolved and
\* their waits of 1 s and 2 s are over
C25_Witness ==
  \E t \in Tasks :
    /\ task[t].op = "sendEmail"
    /\ task[t].pc = "s_send"
    /\ task[t].attempt = 3
    /\ Len(task[t].outs) = 2
    /\ task[t].waits = <<1, 2>>
    /\ task[t].sendCalls = 3
    /\ now >= task[t].wake

\* C26 (as claimed): no entry is resent successfully more than once: a
\* retryFailedEmails pass whose resend of an entry succeeds is the first pass
\* to have resent that entry, however the passes overlap.
C26_NoDuplicateResend ==
  [][ \A d \in Drains :
        ( drain[d].pc = "d_send" /\ drain'[d].success = drain[d].success + 1 )
        => drain[d].snapshot[drain[d].i].id \notin qobs.resent
    ]_vars

\* C27: a retryFailedEmails pass over a snapshot of S entries resends the
\* snapshot's entries in order, each once. A resend that succeeded counts as
\* success and takes that entry, and no other, out of the queue; one that
\* returned a Failed outcome or threw counts as failed and leaves the queue as
\* it was. The summary is issued once, after the S-th entry, with the two
\* counts, and then success + failed = S.
C27_EachEntryOnce ==
  [][ \A d \in Drains :
        LET dr == drain[d]
            nx == drain'[d]
        IN /\ nx.pc # "idle" =>
                /\ Len(nx.tried) <= Len(nx.snapshot)
                /\ \A k \in 1..Len(nx.tried) : nx.tried[k] = nx.snapshot[k].id
                /\ nx.success + nx.failed = Len(nx.tried)
                /\ nx.pc = "d_send" => Len(nx.tried) = nx.i - 1
                /\ nx.pc \in {"d_notify", "done"} => Len(nx.tried) = Len(nx.snapshot)
                /\ nx.summary.sent =>
                     /\ nx.pc \in {"d_notify", "done"}
                     /\ nx.summary.success = nx.success
                     /\ nx.summary.failed = nx.failed
                     /\ nx.summary.success + nx.summary.failed = Len(nx.snapshot)
           /\ (dr.pc = "d_send" /\ nx.pc # "d_send") =>
                /\ nx.pc = "d_wait"
                /\ nx.tried = Append(dr.tried, dr.snapshot[dr.i].id)
                /\ \/ /\ nx.success = dr.success + 1
                      /\ nx.failed = dr.failed
                      /\ failedEmails' = RemoveEntry(failedEmails, dr.snapshot[dr.i])
                   \/ /\ nx.success = dr.success
                      /\ nx.failed = dr.failed + 1
                      /\ failedEmails' = failedEmails
    ]_vars

\* a pass over two entries is done: one resend succeeded, the other threw or
\* failed, the summary says {1, 1} and the entry not resent is still queued
C27_Witness ==
  \E d \in Drains :
    /\ drain[d].pc = "done"
    /\ ~drain[d].disturbed
    /\ drain[d].added = {}
    /\ Len(drain[d].snapshot) = 2
    /\ Len(drain[d].tried) = 2
    /\ drain[d].summary = [sent |-> TRUE, success |-> 1, failed |-> 1]
    /\ Len(failedEmails) = 1
    /\ failedEmails[1].id \notin qobs.resent

\* C30: with BOT_TOKEN, CHAT_ID or WEBHOOK_SECRET absent the process exits
\* before it initialises anything or serves a request, and it exits for no
\* other reason; with the mail credentials absent createGmailService yields
\* no service, the process is not stopped, and once it listens the "Gmail not
\* configured" alert has been sent to the operator.
C30_StartupSecrets ==
  /\ coreSecrets = "absent" =>
       /\ proc = "exited"
       /\ initializationPromise = Null
       /\ served = 0
  /\ proc = "exited" => coreSecrets = "absent"
  /\ mailConfigured = "absent" =>
       /\ globalGmailService = Null
       /\ proc \in {"loaded", "listening"}
       /\ proc = "listening" => notConfiguredSent

\* without mail credentials the process listens, has alerted the operator and
\* has answered a webhook request with 200
C30_Witness ==
  /\ mailConfigured = "absent"
  /\ proc = "listening"
  /\ notConfiguredSent
  /\ \E w \in Reqs : webhook[w].pc = "done" /\ webhook[w].status = 200

C29_ServiceUsesNewSecret ==
  \A c \in Runs :
    (cb[c].terminal = "Accepted" /\ globalGmailService = "service") =>
      configRefreshToken = tokenFile.refreshToken

\* C31: loadRefreshToken never throws; it returns null when tokens.json is
\* missing, is not parsable or holds an empty refreshToken, and the stored
\* refreshToken otherwise; a load that follows a resolved saveRefreshToken(t)
\* with non-empty t, the file untouched in between, returns t.
C31_LoadHandlesAbsence ==
  /\ lastLoad.kind # "threw"
  /\ lastLoad.kind = "null" =>
       \/ tokenFile = NoFile
       \/ \A str \in Secrets : tokenFile.text # JSONstringify(str)
       \/ tokenFile.text = JSONstringify(<<>>)
  /\ lastLoad.kind = "value" =>
       /\ lastLoad.value # <<>>
       /\ tokenFile = TextFile(JSONstringify(lastLoad.value))
  /\ (lastLoad.kind # "none" /\ lastSave.kind = "value" /\ lastSave.value # <<>>) =>
       lastLoad = Returned(lastSave.value)

\* a token holding a quote and a backslash was saved and then loaded back
C31_Witness ==
  /\ lastSave = Returned(<<"q", "b">>)
  /\ lastLoad = Returned(<<"q", "b">>)

\* C32: createGmailService has run with no tokens.json, with a refresh token
\* in GOOGLE_REFRESH_TOKEN and the other Google settings in place: it built a
\* service, and the service holds the refresh token of the environment.
C32_EnvFallback ==
  ( /\ initializationPromise = "resolved"
    /\ tokenFile = NoFile
    /\ processEnv.settings
    /\ processEnv.GOOGLE_REFRESH_TOKEN # 0 ) =>
      /\ globalGmailService = "service"
      /\ configRefreshToken = processEnv.GOOGLE_REFRESH_TOKEN

\* C33: a drain pass never grows failedEmails: the list grows only in the
\* push of handleFailedEmail, and a resend that failed or threw leaves it as
\* it was; and when a pass during which no handleFailedEmail pushed (and
\* clearFailedEmails took none of its entries) reaches its summary, the list
\* is as long as it was when the pass began minus the successes the pass
\* counted.
C33_DrainNeverGrows ==
  [][ /\ Len(failedEmails') > Len(failedEmails) => nextId' = nextId + 1
      /\ \A d \in Drains :
           /\ (drain[d].pc = "d_send" /\ drain'[d].pc = "d_wait"
                 /\ drain'[d].failed = drain[d].failed + 1) =>
                failedEmails' = failedEmails
           /\ ( /\ drain[d].pc = "d_wait"
                /\ drain'[d].pc = "d_notify"
                /\ drain'[d].added = {}
                /\ \A k \in 1..Len(drain'[d].snapshot) :
                     \/ drain'[d].snapshot[k].id \in qobs'.resent
                     \/ \E j \in 1..Len(failedEmails') :
                          failedEmails'[j] = drain'[d].snapshot[k] ) =>
                Len(failedEmails') = Len(drain'[d].snapshot) - drain'[d].success
    ]_vars

C35_InitializedOnce ==
  /\ initRuns <= 1
  /\ instances <= 1
  /\ monitors <= 1
  /\ monitors = instances
  /\ (instances = 1) = (globalGmailService = "service")
  /\ \A g \in Getters :
       getter[g].pc = "done" =>
         /\ initRuns = 0
         /\ getter[g].service = globalGmailService
         /\ getter[g].instance = instances

\* two getGmailServiceAsync calls made while the initialisation was pending
\* have both resolved to the one instance
C35_Witness ==
  /\ instances = 1
  /\ gets = MaxGets
  /\ \A g \in Getters : getter[g].pc = "done" /\ getter[g].service = "service"

\* C36: the cached return of validateToken is taken only in a step that found
\* isTokenValid true; an invocation's validateToken comes to return true only
\* in such a step or in the step in which its own probe succeeded; and a
\* sendEmail is at its attempts only when its validateToken returned true.
\* So a call made while isTokenValid is false probes, and no send is tried
\* before that probe has succeeded.
C36_NoCacheHitWhileInvalid ==
  [][ /\ "cache_hit" \in events' => isTokenValid
      /\ \A t \in Tasks :
           /\ (task[t].pc = "idle" /\ task'[t].pc # "idle" /\ ~isTokenValid
                 /\ task'[t].op \in {"validateToken", "sendEmail"}) =>
                (task'[t].pc = "v_token" /\ task'[t].sendCalls = 0)
           /\ (task[t].vres # "true" /\ task'[t].vres = "true") =>
                \/ "cache_hit" \in events' /\ isTokenValid
                \/ "probe_ok" \in events' /\ task[t].pc = "v_profile"
           /\ (task'[t].op = "sendEmail" /\ task'[t].pc \in {"s_token", "s_send", "s_wait"}) =>
                task'[t].vres = "true"
           /\ (task'[t].op = "sendEmail" /\ task'[t].sendCalls > 0) =>
                task'[t].vres = "true"
    ]_vars

\* a sendEmail called while isTokenValid was false, within the grace window of
\* the last successful probe, has probed with success and is at its first attempt
C36_Witness ==
  \E t \in Tasks :
    /\ task[t].op = "sendEmail"
    /\ task[t].pc = "s_token"
    /\ task[t].attempt = 1
    /\ obs.vBy = t
    /\ obs.seen.probed
    /\ ~obs.seen.clean
    /\ obs.seen.withinDone
    /\ obs.vRes = "ok"

\* C37: the monitor starts a refreshToken only in a tick that found
\* isTokenValid false, and goes straight to testConnection otherwise;
\* testConnection leaves isTokenValid, lastTokenCheck and notificationSent as
\* they were; a tick that found isTokenValid false after the provider
\* recovered gets true from its refreshToken, with isTokenValid true and
\* notificationSent false; and once the provider has recovered, a false
\* isTokenValid leads to a true one and such a tick to the end of its refresh.
C37_MonitorRecovers ==
  /\ [][ /\ (monitor.pc = "idle" /\ monitor'.pc = "m_refresh") =>
              (~isTokenValid /\ task'["t1"].op = "refreshToken")
         /\ (task["t1"].op # "refreshToken" /\ task'["t1"].op = "refreshToken") =>
              (~isTokenValid /\ monitor'.pc = "m_refresh")
         /\ (monitor.pc = "idle" /\ monitor'.pc = "m_test") =>
              (isTokenValid /\ task' = task)
         /\ (monitor.pc = "m_test" /\ monitor'.pc = "idle") =>
              UNCHANGED <<isTokenValid, lastTokenCheck, notificationSent, task>>
         /\ (monitor.pc = "m_refresh" /\ monitor'.pc = "m_test" /\ monitor.sinceOk) =>
              /\ monitor'.refreshed = "true"
              /\ isTokenValid'
              /\ ~notificationSent'
       ]_vars
  /\ (providerOk /\ ~isTokenValid) ~> isTokenValid
  /\ (monitor.pc = "m_refresh" /\ monitor.sinceOk) ~>
       (monitor.pc = "m_test" /\ isTokenValid /\ ~notificationSent)

\* a tick found isTokenValid false and the suppression set after the provider
\* recovered; its refreshToken returned true and both are as new
C37_Witness ==
  /\ monitor.pc = "m_test"
  /\ monitor.foundInvalid
  /\ monitor.sinceOk
  /\ monitor.refreshed = "true"
  /\ obs.epNotifs = 0
  /\ isTokenValid
  /\ ~notificationSent

\* C38: an error caught in sendEmail or in validateToken that matches the
\* auth table and the retryable table is handled as an auth error: liveness
\* is cleared, the escalation hook runs, no backoff wait is set up, no
\* further attempt is made, and a sendEmail that ends there ends with
\* requiresReAuth.
C38_AuthBeforeTransient ==
  [][ ( /\ {"matches_auth", "matches_retryable"} \subseteq events'
        /\ {"send_fail", "probe_fail"} \cap events' # {} ) =>
        /\ ~isTokenValid'
        /\ "hook" \in events'
        /\ \A t \in Tasks :
             task'[t] # task[t] =>
               /\ task'[t].pc \in {"s_notify", "v_notify", "done"}
               /\ task'[t].waits = task[t].waits
               /\ task'[t].attempt = task[t].attempt
               /\ task'[t].sendCalls = task[t].sendCalls
               /\ (task'[t].pc = "done" /\ task'[t].op = "sendEmail") =>
                    (task'[t].ret = "failed" /\ task'[t].requiresReAuth)
               /\ (task'[t].pc = "done" /\ task'[t].op # "sendEmail") =>
                    task'[t].ret = "false"
    ]_vars

\* a send failed on its first attempt of three with an error of both tables
\* and the invocation is at the escalation, not at a backoff wait
C38_Witness ==
  \E t \in Tasks :
    /\ {"send_fail", "matches_auth", "matches_retryable", "notify"} \subseteq events
    /\ task[t].pc = "s_notify"
    /\ task[t].attempt = 1
    /\ task[t].maxRetries = DefaultMaxRetries
    /\ ~isTokenValid

\* C39: a callback run whose exchange brought a refresh token and whose
\* identity is the allow-listed address calls saveRefreshToken when the
\* access test returns, whatever it returned; with the write resolved the
\* token is in tokens.json and the run ends in Accepted, after a failed test
\* as after a passed one; the run ends otherwise only when the write failed.
C39_AccessTestIgnored ==
  [][ \A c \in Runs :
        /\ (cb[c].pc = "x_test" /\ cb'[c] # cb[c]) =>
             /\ cb'[c].pc = "x_save"
             /\ cb'[c].save = "called"
             /\ cb'[c].gmailAccessOk \in {"true", "false"}
        /\ (cb'[c].gmailAccessOk # "none" /\ cb'[c].pc = "done") =>
             /\ cb'[c].email = requiredEmail
             /\ cb'[c].tokens.refresh_token
             /\ (cb'[c].save = "ok") = (cb'[c].terminal = "Accepted")
             /\ (cb'[c].save # "ok") =
                  (cb'[c].terminal = "Failed" /\ cb'[c].cause = "save_threw")
        /\ (cb[c].pc = "x_save" /\ cb'[c].save = "ok") =>
             tokenFile'.refreshToken = cb[c].tokens.serial
    ]_vars

\* a run whose access test failed has written tokens.json and ended in Accepted
C39_Witness ==
  \E c \in Runs :
    /\ cb[c].gmailAccessOk = "false"
    /\ cb[c].terminal = "Accepted"
    /\ cb[c].page = "success"
    /\ tokenFile.refreshToken = cb[c].tokens.serial

\* C40: the chat message of a webhook request is tried at most ChatMaxRetries
\* times and before the confirmation e-mail; and with the GmailService built,
\* a request whose chat message failed for good is still answered 200 and had
\* sendConfirmationEmail invoked for it.
C40_ChatFailureContained ==
  \A w \in Reqs :
    /\ webhook[w].attempt <= ChatMaxRetries
    /\ webhook[w].emailInvoked => webhook[w].chat # "none"
    /\ ( /\ mailConfigured = "present"
         /\ globalGmailService = "service"
         /\ webhook[w].pc = "done"
         /\ webhook[w].chat = "threw" ) =>
           /\ webhook[w].status = 200
           /\ webhook[w].emailInvoked
====
